---- MODULE Spec2Model ----
(***************************************************************************)
(* Model of the codebase-scanning engine of the Learning Notebook MCP      *)
(* server: the path guard (validateFilePath) and the read_file handler,    *)
(* the search walker (performSearch, countSearchableFiles) behind the      *)
(* search_codebase handler, and the usage-graph builder                    *)
(* (analyzeComponentUsage).                                                *)
(*                                                                         *)
(* Strings are TLA+ strings; TLC evaluates Len, \o, SubSeq, Head and Tail  *)
(* on them, so paths and file texts are handled character by character as  *)
(* the code handles them.  The back-quote character cannot be written in a *)
(* TLA+ string; no text of the model contains one.                         *)
(***************************************************************************)
EXTENDS Integers, Sequences, FiniteSets, TLC

(***************************************************************************)
(* JavaScript string primitives                                            *)
(***************************************************************************)
\* String.prototype.substring with 1-based, inclusive positions i >= 1: the part
\* of s[i..j] that exists
sub(s, i, j) ==
  LET hi == IF j > Len(s) THEN Len(s) ELSE j
  IN  IF i > hi THEN "" ELSE SubSeq(s, i, hi)

\* the character at position i, "" beyond the end
Ch(s, i) == sub(s, i, i)

Min(S) == CHOOSE m \in S : \A n \in S : m <= n

Max(S) == CHOOSE m \in S : \A n \in S : m >= n

\* String.prototype.startsWith
startsWith(s, p) == Len(p) <= Len(s) /\ SubSeq(s, 1, Len(p)) = p

\* String.prototype.endsWith
endsWith(s, p) == Len(p) <= Len(s) /\ SubSeq(s, Len(s) - Len(p) + 1, Len(s)) = p

\* String.prototype.indexOf from 1-based position `from`; 0 when absent
indexOf(s, q, from) ==
  LET hits == {i \in from..(Len(s) - Len(q) + 1) : SubSeq(s, i, i + Len(q) - 1) = q}
  IN  IF hits = {} THEN 0 ELSE Min(hits)

\* String.prototype.lastIndexOf; 0 when absent
lastIndexOf(s, q) ==
  LET hits == {i \in 1..(Len(s) - Len(q) + 1) : SubSeq(s, i, i + Len(q) - 1) = q}
  IN  IF hits = {} THEN 0 ELSE Max(hits)

\* String.prototype.includes
includes(s, q) == indexOf(s, q, 1) # 0

UpperLetters == "ABCDEFGHIJKLMNOPQRSTUVWXYZ"

LowerLetters == "abcdefghijklmnopqrstuvwxyz"

Digits == "0123456789"

lowerChar(c) ==
  LET k == indexOf(UpperLetters, c, 1)
  IN  IF k = 0 THEN c ELSE Ch(LowerLetters, k)

\* String.prototype.toLowerCase (ASCII letters)
RECURSIVE toLowerCase(_)
toLowerCase(s) ==
  IF s = "" THEN "" ELSE lowerChar(Head(s)) \o toLowerCase(Tail(s))

\* the regular-expression class \s, restricted to the white space the texts use
isSpace(c) == c \in {" ", "\t", "\n", "\r"}

\* the characters of the regular-expression class \w
WordChars ==
  {SubSeq(UpperLetters, i, i) : i \in 1..Len(UpperLetters)}
    \cup {SubSeq(LowerLetters, i, i) : i \in 1..Len(LowerLetters)}
    \cup {SubSeq(Digits, i, i) : i \in 1..Len(Digits)}
    \cup {"_"}

\* the regular-expression class \w
isWord(c) == c \in WordChars

\* String.prototype.trim
RECURSIVE trimStart(_)
trimStart(s) == IF s # "" /\ isSpace(Head(s)) THEN trimStart(Tail(s)) ELSE s

RECURSIVE trimEnd(_)
trimEnd(s) ==
  IF s # "" /\ isSpace(Ch(s, Len(s))) THEN trimEnd(SubSeq(s, 1, Len(s) - 1)) ELSE s

trim(s) == trimEnd(trimStart(s))

\* String.prototype.split on a one-character separator: a tuple of strings
RECURSIVE split(_, _)
split(s, sep) ==
  LET k == indexOf(s, sep, 1)
  IN  IF k = 0 THEN <<s>>
      ELSE <<SubSeq(s, 1, k - 1)>> \o split(SubSeq(s, k + 1, Len(s)), sep)

\* Array.prototype.join
RECURSIVE joinWith(_, _)
joinWith(parts, sep) ==
  IF Len(parts) = 0 THEN ""
  ELSE IF Len(parts) = 1 THEN parts[1]
  ELSE parts[1] \o sep \o joinWith(Tail(parts), sep)

\* Array.prototype.slice(from, to) with 0-based, end-exclusive indices >= 0
slice(arr, from, to) == SubSeq(arr, from + 1, IF to > Len(arr) THEN Len(arr) ELSE to)

\* Array.prototype.includes
arrayIncludes(arr, x) == \E i \in 1..Len(arr) : arr[i] = x

(***************************************************************************)
(* Node's path module (POSIX)                                              *)
(***************************************************************************)
\* the segments of a path after '.', '..' and empty segments are resolved
RECURSIVE normalizeSegments(_, _)
normalizeSegments(segs, acc) ==
  IF Len(segs) = 0 THEN acc
  ELSE LET h == segs[1]
       IN  IF h = "" \/ h = "." THEN normalizeSegments(Tail(segs), acc)
           ELSE IF h = ".."
                THEN normalizeSegments(Tail(segs),
                       IF Len(acc) = 0 THEN acc ELSE SubSeq(acc, 1, Len(acc) - 1))
                ELSE normalizeSegments(Tail(segs), Append(acc, h))

\* the segments of an absolute path
segments(p) == normalizeSegments(split(p, "/"), <<>>)

\* path.resolve(base, p) for an absolute base: an absolute p overrides base
resolve(base, p) ==
  LET whole == IF startsWith(p, "/") THEN p ELSE base \o "/" \o p
  IN  "/" \o joinWith(segments(whole), "/")

\* path.join(dir, name) for an absolute dir
join(dir, name) == "/" \o joinWith(segments(dir \o "/" \o name), "/")

\* the last segment of a path
basename(p) ==
  LET segs == split(p, "/") IN segs[Len(segs)]

\* path.extname: from the last '.' of the last segment, '' when there is none
\* or when the only '.' is the first character of the segment
extname(p) ==
  LET b == basename(p)
      k == lastIndexOf(b, ".")
  IN  IF k = 0 \/ k = 1 \/ b = ".." THEN "" ELSE SubSeq(b, k, Len(b))

\* length of the longest common prefix of two tuples
RECURSIVE commonPrefix(_, _)
commonPrefix(a, b) ==
  IF Len(a) = 0 \/ Len(b) = 0 \/ a[1] # b[1] THEN 0
  ELSE 1 + commonPrefix(Tail(a), Tail(b))

\* path.relative(from, to) for absolute paths
relative(from, to) ==
  LET f == segments(from)
      t == segments(to)
      c == commonPrefix(f, t)
      ups == [i \in 1..(Len(f) - c) |-> ".."]
  IN  joinWith(ups \o SubSeq(t, c + 1, Len(t)), "/")

(***************************************************************************)
(* Program constants                                                       *)
(***************************************************************************)
\* resolve(process.cwd(), "../learning-notebook"): the project directory,
\* written /w/nb here (cwd /w/mcp, project name nb)
ANGULAR_PROJECT_PATH == resolve("/w/mcp", "../nb")

ALLOWED_EXTENSIONS == <<".ts", ".html", ".scss", ".css", ".json", ".md", ".js">>

\* results.slice(0, 50)
RESULT_LIMIT == 50

(***************************************************************************)
(* The file system: a function from real absolute paths to nodes.  A node  *)
(* is a directory (its entry names in directory order), a regular file     *)
(* (its text) or a symbolic link (its target); ok says whether the process *)
(* may read it (readdir of a directory, readFile of a file).               *)
(***************************************************************************)
Dir(ok, names) == [kind |-> "dir", ok |-> ok, names |-> names, text |-> "", to |-> ""]

File(ok, text) == [kind |-> "file", ok |-> ok, names |-> <<>>, text |-> text, to |-> ""]

Link(to) == [kind |-> "link", ok |-> TRUE, names |-> <<>>, text |-> "", to |-> to]

\* what path resolution yields for a path that does not lead to a node
NoPath == "!"

\* number of symbolic links one path resolution follows before it fails (ELOOP)
MaxLinks == 3

\* the real path of the node a path leads to, following symbolic links as the
\* system calls behind access, stat, readFile and readdir do
RECURSIVE followPath(_, _, _, _)
followPath(F, cur, segs, fuel) ==
  IF Len(segs) = 0 THEN (IF cur = "" THEN "/" ELSE cur)
  ELSE LET cand == cur \o "/" \o segs[1]
       IN  IF cand \notin DOMAIN F THEN NoPath
           ELSE IF F[cand].kind = "link"
                THEN IF fuel = 0 THEN NoPath
                     ELSE followPath(F, "",
                            segments(resolve(IF cur = "" THEN "/" ELSE cur, F[cand].to))
                              \o Tail(segs), fuel - 1)
           ELSE IF F[cand].kind = "file" /\ Len(segs) > 1 THEN NoPath
           ELSE followPath(F, cand, Tail(segs), fuel)

realpath(F, p) == followPath(F, "", segments(p), MaxLinks)

\* fs/promises.access(p): resolves iff the path leads to a node
accessOk(F, p) == realpath(F, p) # NoPath

\* fs/promises.stat(p) resolves iff the path leads to a node; stats.isFile()
statOk(F, p) == realpath(F, p) # NoPath

statIsFile(F, p) == statOk(F, p) /\ F[realpath(F, p)].kind = "file"

\* fs/promises.readFile(p, 'utf-8'): resolves with the text of a readable regular file
readFileOk(F, p) ==
  /\ realpath(F, p) # NoPath
  /\ F[realpath(F, p)].kind = "file"
  /\ F[realpath(F, p)].ok

readFileText(F, p) == F[realpath(F, p)].text

\* fs/promises.readdir(p, {withFileTypes: true}): resolves for a readable directory
readdirOk(F, p) ==
  /\ realpath(F, p) # NoPath
  /\ F[realpath(F, p)].kind = "dir"
  /\ F[realpath(F, p)].ok

\* the Dirent list: each entry's name and its own type (a link is not followed)
readdir(F, p) ==
  LET d == realpath(F, p)
      prefix == IF d = "/" THEN "" ELSE d
  IN  [i \in 1..Len(F[d].names) |->
         [name |-> F[d].names[i], type |-> F[prefix \o "/" \o F[d].names[i]].kind]]

\* a test that takes a symbolic link for the directory it may lead to
isDirectory_following(item) == item.type \in {"dir", "link"}

\* Dirent.isDirectory(), Dirent.isFile()
isDirectory(item) == item.type = "dir"

isFile(item) == item.type = "file"

(***************************************************************************)
(* The directory trees the model runs on.  A tree is built from a record   *)
(* of choices k; every tree has the project directory /w/nb, a sibling     *)
(* /w/nb2 whose path has the project path as a string prefix, and /etc     *)
(* outside of both.                                                        *)
(***************************************************************************)
\* number of lines of the large file big.ts, each of which contains "ab"
BigLines == 52

RECURSIVE repeat(_, _)
repeat(s, n) == IF n = 0 THEN "" ELSE s \o repeat(s, n - 1)

Opt(b, name) == IF b THEN <<name>> ELSE <<>>

WidgetText == "@Component({ selector: 'app-w' })\nexport class WComponent {}\n"

ButtonText ==
  "import { WComponent } from './w.component';\n@Component({\n  selector: 'app-b',\n  imports: [WComponent],\n})\nexport class BComponent {}\n"

PageText ==
  "<div>\n<app-w></app-w>\n  <app-b class='x'>\n</app-b><app-w ><app-w>\n</div>\n"

\* a second file that declares WComponent, with another selector
OtherWidgetText == "@Component({ selector: 'app-x' })\nexport class WComponent {}\n"

\* an exported class with the Component suffix and no selector field
BareText == "export class NComponent {}\n"

MainText == "import { BComponent, WComponent } from './x';\nconst ab = 1;\n"

ServiceText ==
  "import { Injectable } from '@angular/core';\nimport * as R from \"rx\";\nimport D from 'd';\nexport class SComponent {\n  h = inject(HttpClient);\n  constructor(s: DataService) {}\n  get v(): Id { if (ab) { } }\n  ngOnInit() {}\n}\nexport interface Item { }\nexport type Id = string;\nexport { A };\n@Component({ imports: [BarPipe] })\n"

\* every node a tree can have
AllNodes(k) ==
     ("/" :> Dir(TRUE, <<"etc", "w">>))
  @@ ("/etc" :> Dir(TRUE, <<"p.md", "passwd">>))
  @@ ("/etc/p.md" :> File(TRUE, "secret ab\n"))
  @@ ("/etc/passwd" :> File(TRUE, "root:x:0\n"))
  @@ ("/w" :> Dir(TRUE, <<"nb", "nb2">>))
  @@ ("/w/nb2" :> Dir(TRUE, <<"e.ts">>))
  @@ ("/w/nb2/e.ts" :> File(TRUE, "other ab\n"))
  @@ ("/w/nb" :> Dir(TRUE, <<"a.ts", ".e.json", "node_modules", "src">>
                             \o Opt(k.exe, "n.exe")
                             \o <<".h", "d.md", "l.ts", "li.ts", "dl", "dist">>
                             \o Opt(k.big, "big.ts")))
  @@ ("/w/nb/a.ts" :> File(k.aOk, "x\n  Ab c \nzAB ab\n"))
  @@ ("/w/nb/.e.json" :> File(TRUE, "{ab}\n"))
  @@ ("/w/nb/node_modules" :> Dir(TRUE, <<"m.ts", "k">>))
  @@ ("/w/nb/node_modules/m.ts" :> File(TRUE, "ab\n"))
  @@ ("/w/nb/node_modules/k" :> Dir(TRUE, <<"k.js">>))
  @@ ("/w/nb/node_modules/k/k.js" :> File(TRUE, "ab\n"))
  @@ ("/w/nb/n.exe" :> File(TRUE, "ab\n"))
  @@ ("/w/nb/.h" :> Dir(TRUE, <<"h.ts">>))
  @@ ("/w/nb/.h/h.ts" :> File(TRUE, ServiceText))
  @@ ("/w/nb/d.md" :> Dir(TRUE, <<>>))
  @@ ("/w/nb/l.ts" :> Link("/etc/p.md"))
  @@ ("/w/nb/li.ts" :> Link("a.ts"))
  @@ ("/w/nb/dl" :> Link("/etc"))
  @@ ("/w/nb/dist" :> Dir(TRUE, <<"o.js">>))
  @@ ("/w/nb/dist/o.js" :> File(TRUE, "ab\n"))
  @@ ("/w/nb/big.ts" :> File(TRUE, repeat("ab\n", BigLines)))
  @@ ("/w/nb/src" :> Dir(k.srcOk,
        IF k.rev
          THEN Opt(k.extra, "layout")
                 \o <<"ui", "b.component.ts", "m.ts", "node_modules", "p.html",
                      "w.component.ts">>
          ELSE <<"w.component.ts", "p.html", "node_modules", "m.ts", "b.component.ts", "ui">>
                 \o Opt(k.extra, "layout")))
  @@ ("/w/nb/src/layout" :> Dir(TRUE, <<"x.component.ts", "n.component.ts", "up">>))
  @@ ("/w/nb/src/layout/x.component.ts" :> File(TRUE, OtherWidgetText))
  @@ ("/w/nb/src/layout/n.component.ts" :> File(TRUE, BareText))
  @@ ("/w/nb/src/layout/up" :> Link("/w/nb/src"))
  @@ ("/w/nb/src/w.component.ts" :> File(TRUE, WidgetText))
  @@ ("/w/nb/src/p.html" :> File(TRUE, PageText))
  @@ ("/w/nb/src/node_modules" :> Dir(TRUE, <<"v.ts">>))
  @@ ("/w/nb/src/node_modules/v.ts" :> File(TRUE, "ab\n"))
  @@ ("/w/nb/src/m.ts" :> File(TRUE, MainText))
  @@ ("/w/nb/src/b.component.ts" :> File(TRUE, ButtonText))
  @@ ("/w/nb/src/ui" :> Dir(k.uiOk, <<"u.md", ".g">>))
  @@ ("/w/nb/src/ui/u.md" :> File(k.uOk, "AB\n"))
  @@ ("/w/nb/src/ui/.g" :> Dir(TRUE, <<"g.ts">>))
  @@ ("/w/nb/src/ui/.g/g.ts" :> File(TRUE, "ab\n"))

\* the nodes a choice leaves out
Absent(k) ==
  (IF k.exe THEN {} ELSE {"/w/nb/n.exe"}) \cup (IF k.big THEN {} ELSE {"/w/nb/big.ts"})
    \cup (IF k.extra THEN {}
          ELSE {"/w/nb/src/layout", "/w/nb/src/layout/x.component.ts",
                "/w/nb/src/layout/n.component.ts", "/w/nb/src/layout/up"})

Tree(k) == [p \in (DOMAIN AllNodes(k)) \ Absent(k) |-> AllNodes(k)[p]]

\* the choices a tree is built from
Choices ==
  [aOk : BOOLEAN, exe : BOOLEAN, big : BOOLEAN, srcOk : BOOLEAN, uiOk : BOOLEAN,
   uOk : BOOLEAN, rev : BOOLEAN, extra : BOOLEAN]

(***************************************************************************)
(* State                                                                   *)
(***************************************************************************)
VARIABLES
  fs,      \* the file system
  fsOps,   \* the file-system calls made so far, in order: [op, path]
  rf,      \* the read_file invocation: its position, locals and response
  sc,      \* the search_codebase invocation
  ua,      \* the analyze_component_usage invocation
  ex,      \* the extractFileContext invocation
  bg,      \* the invocations that wait at an await while sc and ua run
  tl       \* the invocation of one of the other tools and its response

vars == <<fs, fsOps, rf, sc, ua, ex, bg, tl>>

(***************************************************************************)
(* validateFilePath and the read_file handler                              *)
(***************************************************************************)
\* the security check of validateFilePath, line 16
validateFilePath_inProject(fullPath) ==
  startsWith(fullPath, resolve(ANGULAR_PROJECT_PATH, ""))

\* validateFilePath without its extension check
validateFilePath_extAllowed_unchecked(fullPath) == TRUE

\* the extension check of validateFilePath, lines 21-22
validateFilePath_extAllowed(fullPath) ==
  arrayIncludes(ALLOWED_EXTENSIONS, extname(fullPath))

\* the error response of the handler: the message, none of the file's content
ErrorResponse(kind) == [isError |-> TRUE, kind |-> kind, content |-> ""]

NoResponse == [isError |-> FALSE, kind |-> "none", content |-> ""]

\* the invocation before the handler is called.  guard is the outcome of
\* validateFilePath: "pending", "accepted", or the kind of its rejection
Idle ==
  [pc |-> "idle", filePath |-> "", fullPath |-> "", guard |-> "pending",
   content |-> "", response |-> NoResponse]

\* validateFilePath throws: the handler's catch turns the error into the response
Rejected(r, kind) ==
  [r EXCEPT !.pc = "done", !.guard = kind, !.response = ErrorResponse(kind)]

\* the paths a caller passes to read_file
ReadInputs ==
  {"a.ts", "n.exe", "q.exe", "zz.ts", "d.md", "src", "", ".e.json",
   "../../etc/passwd", "../../etc/p.md", "/etc/p.md", "../nb2/e.ts",
   "l.ts", "li.ts", "dl/p.md", "src/../a.ts", "../nb/a.ts", "/w/nb/src/m.ts"}

\* handler entry and the synchronous head of validateFilePath: resolve, the
\* project check, the extension check
ReadFile_call(filePath) ==
  /\ rf.pc = "idle"
  /\ LET fullPath == resolve(ANGULAR_PROJECT_PATH, filePath)
         r == [rf EXCEPT !.filePath = filePath, !.fullPath = fullPath]
     IN  rf' = IF ~validateFilePath_inProject(fullPath) THEN Rejected(r, "OutOfScope")
               ELSE IF ~validateFilePath_extAllowed(fullPath)
                 THEN Rejected(r, "DisallowedType")
               ELSE [r EXCEPT !.pc = "access"]
  /\ UNCHANGED <<fs, ex, bg, tl, fsOps, sc, ua>>

\* await access(fullPath)
validateFilePath_access ==
  /\ rf.pc = "access"
  /\ fsOps' = Append(fsOps, [op |-> "access", path |-> rf.fullPath])
  /\ rf' = IF accessOk(fs, rf.fullPath)
             THEN [rf EXCEPT !.pc = "stat"]
             ELSE Rejected(rf, "NotAccessible")
  /\ UNCHANGED <<fs, ex, bg, tl, sc, ua>>

\* await stat(fullPath); stats.isFile(); return fullPath
validateFilePath_stat ==
  /\ rf.pc = "stat"
  /\ fsOps' = Append(fsOps, [op |-> "stat", path |-> rf.fullPath])
  /\ rf' = IF statIsFile(fs, rf.fullPath)
             THEN [rf EXCEPT !.pc = "readFile", !.guard = "accepted"]
             ELSE Rejected(rf, "NotAccessible")
  /\ UNCHANGED <<fs, ex, bg, tl, sc, ua>>

\* a catch block that returns what was read before the failure
ReadFile_catch_partial(content, kind) ==
  [isError |-> TRUE, kind |-> kind, content |-> content]

\* the catch block of the handler: the response is built from filePath and
\* the error's message; the text read before the failure is not part of it
ReadFile_catch(content, kind) == ErrorResponse(kind)

\* const content = await readFile(fullPath, 'utf-8')
ReadFile_readFile ==
  /\ rf.pc = "readFile"
  /\ fsOps' = Append(fsOps, [op |-> "readFile", path |-> rf.fullPath])
  /\ rf' = IF readFileOk(fs, rf.fullPath)
             THEN [rf EXCEPT !.pc = "size", !.content = readFileText(fs, rf.fullPath)]
             ELSE [rf EXCEPT !.pc = "done",
                             !.response = ReadFile_catch(rf.content, "ReadFailed")]
  /\ UNCHANGED <<fs, ex, bg, tl, sc, ua>>

\* const fileSize = (await stat(fullPath)).size; return the file's text
ReadFile_stat ==
  /\ rf.pc = "size"
  /\ fsOps' = Append(fsOps, [op |-> "stat", path |-> rf.fullPath])
  /\ rf' = [rf EXCEPT !.pc = "done",
                      !.response =
                        IF statOk(fs, rf.fullPath)
                          THEN [isError |-> FALSE, kind |-> "file", content |-> rf.content]
                          ELSE ReadFile_catch(rf.content, "ReadFailed")]
  /\ UNCHANGED <<fs, ex, bg, tl, sc, ua>>

(***************************************************************************)
(* The file system between two awaits of the server: another process       *)
(* removes a file or takes its read permission away.                       *)
(***************************************************************************)
\* the directory a path is an entry of
parentOf(p) == "/" \o joinWith(SubSeq(segments(p), 1, Len(segments(p)) - 1), "/")

\* unlink(p) by another process
FileRemoved(p) ==
  /\ p \in DOMAIN fs
  /\ fs[p].kind = "file"
  /\ fs' = [q \in DOMAIN fs \ {p} |->
              IF q = parentOf(p)
                THEN [fs[q] EXCEPT !.names = SelectSeq(@, LAMBDA n : n # basename(p))]
                ELSE fs[q]]
  /\ UNCHANGED <<fsOps, rf, sc, ua, ex, bg, tl>>

\* chmod a-r p by another process
FileBecomesUnreadable(p) ==
  /\ p \in DOMAIN fs
  /\ fs[p].kind = "file"
  /\ fs[p].ok
  /\ fs' = [fs EXCEPT ![p].ok = FALSE]
  /\ UNCHANGED <<fsOps, rf, sc, ua, ex, bg, tl>>

(***************************************************************************)
(* performSearch and countSearchableFiles behind the search_codebase       *)
(* handler.  A traversal is a stack of frames, one per active call of the  *)
(* recursive walker: the directory, its Dirent list and the index of the   *)
(* next entry.                                                             *)
(***************************************************************************)
Frame(dir, items) == [dir |-> dir, items |-> items, i |-> 1]

\* a walker whose failed readdir ends the whole traversal, not only the call
Enter_abandonsAll(F, stack, dir) ==
  IF readdirOk(F, dir) THEN Append(stack, Frame(dir, readdir(F, dir))) ELSE <<>>

\* a walker that applies the exclusion by name to the directory it is called on
Enter_namedExcluded(F, stack, dir) ==
  IF /\ readdirOk(F, dir)
     /\ ~startsWith(basename(dir), ".")
     /\ basename(dir) \notin {"node_modules", "dist"}
    THEN Append(stack, Frame(dir, readdir(F, dir))) ELSE stack

\* the call walker(dir): readdir inside the try; a failure is caught and the
\* call returns at once, so no frame is pushed
Enter(F, stack, dir) ==
  IF readdirOk(F, dir) THEN Append(stack, Frame(dir, readdir(F, dir))) ELSE stack

Top(stack) == stack[Len(stack)]

\* the stack with the top frame moved to its next entry
Advance(stack) == [stack EXCEPT ![Len(stack)].i = @ + 1]

HasItem(stack) == Len(stack) > 0 /\ Top(stack).i <= Len(Top(stack).items)

TopItem(stack) == Top(stack).items[Top(stack).i]

TopPath(stack) == join(Top(stack).dir, TopItem(stack).name)

\* searchFiles descending into node_modules
searchFiles_descends_nodeModules(item) ==
  /\ isDirectory(item)
  /\ ~startsWith(item.name, ".")
  /\ item.name # "dist"

\* first branch of the loop body of searchFiles, line 57
searchFiles_descends(item) ==
  /\ isDirectory(item)
  /\ ~startsWith(item.name, ".")
  /\ item.name # "node_modules"
  /\ item.name # "dist"

\* second branch of the loop body of searchFiles, line 59
searchFiles_reads(item, allowedTypes) ==
  isFile(item) /\ arrayIncludes(allowedTypes, extname(item.name))

\* countFiles without recursion: only the files of the start directory count
countFiles_descends_never(item) == FALSE

\* first branch of the loop body of countFiles, line 101
countFiles_descends(item) ==
  /\ isDirectory(item)
  /\ ~startsWith(item.name, ".")
  /\ item.name # "node_modules"
  /\ item.name # "dist"

\* second branch of the loop body of countFiles, line 103
countFiles_counts(item, allowedTypes) ==
  isFile(item) /\ arrayIncludes(allowedTypes, extname(item.name))

\* the hit pushed for line number n (1-based) of lines
Hit(fullPath, lines, n) ==
  [file |-> relative(ANGULAR_PROJECT_PATH, fullPath),
   line |-> n,
   context |-> trim(lines[n]),
   excerpt |-> joinWith(slice(lines, IF n - 3 > 0 THEN n - 3 ELSE 0, n + 2), "\n")]

\* a test that compares the letters as they are written
lineMatches_caseSensitive(line, query) == includes(line, query)

\* line.toLowerCase().includes(query.toLowerCase()), line 63
lineMatches(line, query) == includes(toLowerCase(line), toLowerCase(query))

\* lines.forEach: the hits of lines n.. of one file, in line order
RECURSIVE lineHits(_, _, _, _)
lineHits(fullPath, lines, query, n) ==
  IF n > Len(lines) THEN <<>>
  ELSE (IF lineMatches(lines[n], query)
          THEN <<Hit(fullPath, lines, n)>> ELSE <<>>)
       \o lineHits(fullPath, lines, query, n + 1)

\* the hits of one file's text
fileHits(fullPath, content, query) == lineHits(fullPath, split(content, "\n"), query, 1)

\* performSearch returning every hit it collected
performSearch_result_unsliced(results) == results

\* performSearch returning the last hits it collected, up to the limit
performSearch_result_last(results) ==
  SubSeq(results, IF Len(results) > RESULT_LIMIT THEN Len(results) - RESULT_LIMIT + 1 ELSE 1,
         Len(results))

\* return results.slice(0, 50)
performSearch_result(results) == slice(results, 0, RESULT_LIMIT)

\* the search directory check of the handler, line 31
searchCodebase_inProject(searchDir) ==
  startsWith(searchDir, resolve(ANGULAR_PROJECT_PATH, ""))

\* the arguments a caller passes to search_codebase; "" stands for an absent
\* directory and <<"*">> for an absent fileTypes
Queries == {"ab", "AB", "zz", ""}

FileTypeArgs == {<<"*">>, <<".ts">>, <<".exe", ".md", ".js">>}

DirectoryArgs ==
  {"", "src", "node_modules", "dist", "src/ui", "zz", "a.ts", "dl", "../nb2", "../../etc"}

NoSearch ==
  [made |-> FALSE, query |-> "", allowedTypes |-> <<>>, searchDir |-> "",
   returned |-> <<>>]

\* prev is the previous invocation on this tree, once one has returned
SearchIdle ==
  [pc |-> "idle", searchDir |-> "", query |-> "", allowedTypes |-> <<>>,
   stack |-> <<>>, results |-> <<>>, returned |-> <<>>, count |-> 0,
   counted |-> <<>>, totalFiles |-> 0, matchedFiles |-> 0, isError |-> FALSE,
   prev |-> NoSearch]

\* a results array at module level: a call goes on from the hits of the
\* invocation that waits at an await
performSearch_results_shared(waiting) == waiting

\* const results: SearchResult[] = [] of performSearch: an array of this call
\* alone, whatever the invocation that waits at an await has collected
performSearch_results(waiting) == <<>>

\* the handler from its entry to its first await: resolve the directory,
\* default the file types, check the directory, call performSearch, which
\* calls searchFiles(searchDir).  Every local starts anew.
SearchCodebase_handler(query, fileTypes, directory, prev) ==
  /\ LET searchDir == IF directory # "" THEN resolve(ANGULAR_PROJECT_PATH, directory)
                      ELSE ANGULAR_PROJECT_PATH
         allowedTypes == IF fileTypes = <<"*">> THEN ALLOWED_EXTENSIONS ELSE fileTypes
         r == [SearchIdle EXCEPT !.searchDir = searchDir, !.query = query,
                                 !.allowedTypes = allowedTypes, !.prev = prev,
                                 !.results = performSearch_results(bg.sc.results)]
     IN  IF ~searchCodebase_inProject(searchDir)
           THEN /\ sc' = [r EXCEPT !.pc = "done", !.isError = TRUE]
                /\ UNCHANGED fsOps
           ELSE /\ sc' = [r EXCEPT !.pc = "search", !.stack = Enter(fs, <<>>, searchDir)]
                /\ fsOps' = Append(fsOps, [op |-> "readdir", path |-> searchDir])
  /\ UNCHANGED <<fs, ex, bg, tl, rf, ua>>

\* the first invocation of the handler
SearchCodebase_call(query, fileTypes, directory) ==
  /\ sc.pc = "idle"
  /\ SearchCodebase_handler(query, fileTypes, directory, NoSearch)

\* a second invocation, once the first has returned its result: the same
\* directory and file types, any query
SearchCodebase_again(query) ==
  /\ sc.pc = "done" /\ ~sc.isError /\ ~sc.prev.made
  /\ SearchCodebase_handler(query, sc.allowedTypes,
                            relative(ANGULAR_PROJECT_PATH, sc.searchDir),
                            [made |-> TRUE, query |-> sc.query,
                             allowedTypes |-> sc.allowedTypes,
                             searchDir |-> sc.searchDir, returned |-> sc.returned])

\* a directory entry that is not excluded: await searchFiles(fullPath)
searchFiles_descend ==
  /\ sc.pc = "search"
  /\ HasItem(sc.stack)
  /\ searchFiles_descends(TopItem(sc.stack))
  /\ sc' = [sc EXCEPT !.stack = Enter(fs, Advance(sc.stack), TopPath(sc.stack))]
  /\ fsOps' = Append(fsOps, [op |-> "readdir", path |-> TopPath(sc.stack)])
  /\ UNCHANGED <<fs, ex, bg, tl, rf, ua>>

\* a walker that reports a file it cannot read as a hit of that file
searchFiles_unreadable_reported(results, fullPath) ==
  Append(results, [file |-> relative(ANGULAR_PROJECT_PATH, fullPath), line |-> 0,
                   context |-> "", excerpt |-> ""])

\* the empty catch around readFile: the results stay what they are
searchFiles_unreadable(results, fullPath) == results

\* a regular file of an allowed type: read it and push a hit per matching
\* line; a read failure is caught and the file skipped
searchFiles_readFile ==
  /\ sc.pc = "search"
  /\ HasItem(sc.stack)
  /\ ~searchFiles_descends(TopItem(sc.stack))
  /\ searchFiles_reads(TopItem(sc.stack), sc.allowedTypes)
  /\ LET fullPath == TopPath(sc.stack)
     IN  /\ sc' = [sc EXCEPT !.stack = Advance(sc.stack),
                             !.results =
                               IF readFileOk(fs, fullPath)
                                 THEN @ \o fileHits(fullPath, readFileText(fs, fullPath),
                                                    sc.query)
                                 ELSE searchFiles_unreadable(@, fullPath)]
         /\ fsOps' = Append(fsOps, [op |-> "readFile", path |-> fullPath])
  /\ UNCHANGED <<fs, ex, bg, tl, rf, ua>>

\* any other entry: nothing is done for it
searchFiles_skip ==
  /\ sc.pc = "search"
  /\ HasItem(sc.stack)
  /\ ~searchFiles_descends(TopItem(sc.stack))
  /\ ~searchFiles_reads(TopItem(sc.stack), sc.allowedTypes)
  /\ sc' = [sc EXCEPT !.stack = Advance(sc.stack)]
  /\ UNCHANGED <<fs, ex, bg, tl, fsOps, rf, ua>>

\* the loop of one searchFiles call is over: the call returns
searchFiles_return ==
  /\ sc.pc = "search"
  /\ Len(sc.stack) > 0
  /\ ~HasItem(sc.stack)
  /\ sc' = [sc EXCEPT !.stack = SubSeq(@, 1, Len(@) - 1)]
  /\ UNCHANGED <<fs, ex, bg, tl, fsOps, rf, ua>>

\* performSearch returns its slice; the handler calls countSearchableFiles,
\* which calls countFiles(searchDir)
performSearch_return ==
  /\ sc.pc = "search"
  /\ Len(sc.stack) = 0
  /\ sc' = [sc EXCEPT !.pc = "count",
                      !.returned = performSearch_result(sc.results),
                      !.stack = Enter(fs, <<>>, sc.searchDir)]
  /\ fsOps' = Append(fsOps, [op |-> "readdir", path |-> sc.searchDir])
  /\ UNCHANGED <<fs, ex, bg, tl, rf, ua>>

\* a directory entry that is not excluded: await countFiles(fullPath)
countFiles_descend ==
  /\ sc.pc = "count"
  /\ HasItem(sc.stack)
  /\ countFiles_descends(TopItem(sc.stack))
  /\ sc' = [sc EXCEPT !.stack = Enter(fs, Advance(sc.stack), TopPath(sc.stack))]
  /\ fsOps' = Append(fsOps, [op |-> "readdir", path |-> TopPath(sc.stack)])
  /\ UNCHANGED <<fs, ex, bg, tl, rf, ua>>

\* a regular file of an allowed type: count++ (counted records which file)
countFiles_count ==
  /\ sc.pc = "count"
  /\ HasItem(sc.stack)
  /\ ~countFiles_descends(TopItem(sc.stack))
  /\ countFiles_counts(TopItem(sc.stack), sc.allowedTypes)
  /\ sc' = [sc EXCEPT !.stack = Advance(sc.stack),
                      !.count = @ + 1,
                      !.counted = Append(@, TopPath(sc.stack))]
  /\ UNCHANGED <<fs, ex, bg, tl, fsOps, rf, ua>>

countFiles_skip ==
  /\ sc.pc = "count"
  /\ HasItem(sc.stack)
  /\ ~countFiles_descends(TopItem(sc.stack))
  /\ ~countFiles_counts(TopItem(sc.stack), sc.allowedTypes)
  /\ sc' = [sc EXCEPT !.stack = Advance(sc.stack)]
  /\ UNCHANGED <<fs, ex, bg, tl, fsOps, rf, ua>>

countFiles_return ==
  /\ sc.pc = "count"
  /\ Len(sc.stack) > 0
  /\ ~HasItem(sc.stack)
  /\ sc' = [sc EXCEPT !.stack = SubSeq(@, 1, Len(@) - 1)]
  /\ UNCHANGED <<fs, ex, bg, tl, fsOps, rf, ua>>

\* countSearchableFiles returns count; the handler counts the distinct files
\* of the results: [...new Set(results.map(r => r.file))].length
countSearchableFiles_return ==
  /\ sc.pc = "count"
  /\ Len(sc.stack) = 0
  /\ sc' = [sc EXCEPT !.pc = "done",
                      !.totalFiles = sc.count,
                      !.matchedFiles =
                        Cardinality({sc.returned[i].file : i \in 1..Len(sc.returned)})]
  /\ UNCHANGED <<fs, ex, bg, tl, fsOps, rf, ua>>

(***************************************************************************)
(* analyzeComponentUsage: discovery, usage scan, filter and sort           *)
(***************************************************************************)
\* the position after the white space that starts at position i
RECURSIVE skipSpaces(_, _)
skipSpaces(s, i) == IF i <= Len(s) /\ isSpace(Ch(s, i)) THEN skipSpaces(s, i + 1) ELSE i

\* the last position of the run of \w characters that starts at position i
RECURSIVE wordRunEnd(_, _)
wordRunEnd(s, i) == IF i <= Len(s) /\ isWord(Ch(s, i)) THEN wordRunEnd(s, i + 1) ELSE i - 1

\* the characters of the class ['"] (and of ['"`], see the head of the module)
isQuote(c) == c \in {"'", "\""}

\* the first position >= i of a quote character, 0 when there is none
firstQuote(s, i) ==
  LET qs == {j \in i..Len(s) : isQuote(Ch(s, j))}
  IN  IF qs = {} THEN 0 ELSE Min(qs)

\* the result of a match attempt that fails
NoMatch == ""

\* /export\s+class\s+(\w+Component)/ tried at position i: the captured name
classNameAt(s, i) ==
  LET b == skipSpaces(s, i + 6)
      d == skipSpaces(s, b + 5)
      e == wordRunEnd(s, d)
      ends == {k \in (d + 9)..e : sub(s, k - 8, k) = "Component"}
  IN  IF /\ sub(s, i, i + 5) = "export"
         /\ b > i + 6
         /\ sub(s, b, b + 4) = "class"
         /\ d > b + 5
         /\ ends # {}
        THEN sub(s, d, Max(ends)) ELSE NoMatch

\* extractComponentName: the first match in the text, NoMatch for null
extractComponentName(content) ==
  LET at == {i \in 1..Len(content) : classNameAt(content, i) # NoMatch}
  IN  IF at = {} THEN NoMatch ELSE classNameAt(content, Min(at))

\* /selector:\s*['"`]([^'"`]+)['"`]/ tried at position i: the captured selector
selectorAt(s, i) ==
  LET a == skipSpaces(s, i + 9)
      e == firstQuote(s, a + 1)
  IN  IF /\ sub(s, i, i + 8) = "selector:"
         /\ a <= Len(s)
         /\ isQuote(Ch(s, a))
         /\ e > a + 1
        THEN sub(s, a + 1, e - 1) ELSE NoMatch

\* extractSelector: the first match in the text, 'unknown-selector' without one
extractSelector(content) ==
  LET at == {i \in 1..Len(content) : selectorAt(content, i) # NoMatch}
  IN  IF at = {} THEN "unknown-selector" ELSE selectorAt(content, Min(at))

\* /import\s+{([^}]+)}\s+from\s+['"]([^'"]+)['"]/ tried at position i: group 1
importAt(s, i) ==
  LET b == skipSpaces(s, i + 6)
      e == indexOf(s, "}", b + 1)
      g == skipSpaces(s, e + 1)
      j == skipSpaces(s, g + 4)
      q == firstQuote(s, j + 1)
  IN  IF /\ sub(s, i, i + 5) = "import"
         /\ b > i + 6
         /\ b <= Len(s) /\ Ch(s, b) = "{"
         /\ e > b + 1
         /\ g > e + 1
         /\ sub(s, g, g + 3) = "from"
         /\ j > g + 4
         /\ j <= Len(s) /\ isQuote(Ch(s, j))
         /\ q > j + 1
        THEN sub(s, b + 1, e - 1) ELSE NoMatch

\* line.match(import ...): group 1 of the first match in the line
importMatch(line) ==
  LET at == {i \in 1..Len(line) : importAt(line, i) # NoMatch}
  IN  IF at = {} THEN NoMatch ELSE importAt(line, Min(at))

\* /imports:\s*\[([^\]]+)\]/ tried at position i: group 1
importsArrayAt(s, i) ==
  LET a == skipSpaces(s, i + 8)
      e == indexOf(s, "]", a + 1)
  IN  IF /\ sub(s, i, i + 7) = "imports:"
         /\ a <= Len(s) /\ Ch(s, a) = "["
         /\ e > a + 1
        THEN sub(s, a + 1, e - 1) ELSE NoMatch

\* line.match(imports: [...]): group 1 of the first match in the line
importsArrayMatch(line) ==
  LET at == {i \in 1..Len(line) : importsArrayAt(line, i) # NoMatch}
  IN  IF at = {} THEN NoMatch ELSE importsArrayAt(line, Min(at))

\* a test that takes the closing tag for a use as well
selectorRegexTest_closingTag(selector, line) ==
  includes(line, "<" \o selector) \/ includes(line, "</" \o selector)

\* new RegExp(`<${selector}[\\s>]`, 'g').test(line) on a new RegExp object, for a
\* selector made of letters, digits and '-', which the pattern takes literally
selectorRegexTest(selector, line) ==
  \E i \in 1..Len(line) :
    /\ sub(line, i, i + Len(selector)) = "<" \o selector
    /\ i + Len(selector) + 1 <= Len(line)
    /\ LET c == Ch(line, i + Len(selector) + 1) IN isSpace(c) \/ c = ">"

\* group.split(',').map(x => x.trim())
splitTrim(group) ==
  LET parts == split(group, ",") IN [i \in 1..Len(parts) |-> trim(parts[i])]

\* the decimal digits of a natural number
RECURSIVE toString(_)
toString(n) ==
  IF n < 10 THEN Ch(Digits, n + 1) ELSE toString(n \div 10) \o Ch(Digits, (n % 10) + 1)

\* getContextLines(lines, targetIndex, radius) with the 0-based targetIndex
getContextLines(lines, targetIndex, radius) ==
  LET start == IF targetIndex - radius > 0 THEN targetIndex - radius ELSE 0
      end == IF targetIndex + radius + 1 < Len(lines)
               THEN targetIndex + radius + 1 ELSE Len(lines)
      part == slice(lines, start, end)
  IN  joinWith([index \in 1..Len(part) |->
                  (IF start + index - 1 = targetIndex THEN "→ " ELSE "  ")
                    \o toString(start + index) \o ": " \o part[index]],
               "\n")

determineComponentCategory(filePath) ==
  IF includes(filePath, "shared/components/ui") THEN "ui"
  ELSE IF includes(filePath, "layout/") THEN "layout"
  ELSE IF includes(filePath, "features/") THEN "feature"
  ELSE "external"

\* componentUsages is a Map; it is the tuple of its values in insertion order
mapHas(map, name) == \E i \in 1..Len(map) : map[i].component = name

\* a map in which the first value set for a key stays
mapSet_firstWins(map, name, value) ==
  IF mapHas(map, name) THEN map ELSE Append(map, value)

\* Map.prototype.set: an existing key keeps its place, a new key goes last
mapSet(map, name, value) ==
  IF mapHas(map, name)
    THEN [i \in 1..Len(map) |-> IF map[i].component = name THEN value ELSE map[i]]
    ELSE Append(map, value)

\* a discovery that counts the declaring file as the first use
discoverComponents_register_counted(map, content, relativePath) ==
  LET componentName == extractComponentName(content)
      selector == extractSelector(content)
  IN  IF componentName # NoMatch /\ selector # ""
        THEN mapSet(map, componentName,
                    [component |-> componentName, selector |-> selector,
                     usedIn |-> <<>>, totalUsages |-> 1,
                     importPath |-> relativePath,
                     category |-> determineComponentCategory(relativePath)])
        ELSE map

\* the body of the discovery file handler once the text is read, lines 149-164
discoverComponents_register(map, content, relativePath) ==
  LET componentName == extractComponentName(content)
      selector == extractSelector(content)
  IN  IF componentName # NoMatch /\ selector # ""
        THEN mapSet(map, componentName,
                    [component |-> componentName, selector |-> selector,
                     usedIn |-> <<>>, totalUsages |-> 0,
                     importPath |-> relativePath,
                     category |-> determineComponentCategory(relativePath)])
        ELSE map

\* usage.usedIn.push(...); usage.totalUsages++ of the import branch, lines 212-219
importUsage(usage, location) ==
  [usage EXCEPT !.usedIn = Append(@, location), !.totalUsages = @ + 1]

\* an imports-array branch that also files the component under another category
importsArrayUsage_recategorized(usage, location) ==
  [usage EXCEPT !.usedIn = Append(@, location), !.totalUsages = @ + 1,
                !.category = "used"]

\* the same of the imports-array branch, lines 232-239
importsArrayUsage(usage, location) ==
  [usage EXCEPT !.usedIn = Append(@, location), !.totalUsages = @ + 1]

\* scanTemplateFile pushing the location without counting it
templateUsage_uncounted(usage, location) ==
  [usage EXCEPT !.usedIn = Append(@, location)]

\* the same of scanTemplateFile, lines 258-265
templateUsage(usage, location) ==
  [usage EXCEPT !.usedIn = Append(@, location), !.totalUsages = @ + 1]

Location(file, type, line, context, usage) ==
  [file |-> file, type |-> type, line |-> line, context |-> context, usage |-> usage]

\* imports.forEach of one line (the line number n is 1-based)
RECURSIVE importNames(_, _, _, _, _, _)
importNames(map, names, lines, n, filePath, includeContext) ==
  IF Len(names) = 0 THEN map
  ELSE LET loc == Location(filePath, "typescript", n,
                    IF includeContext THEN getContextLines(lines, n - 1, 2) ELSE "",
                    "Import: " \o trim(lines[n]))
           next == [i \in 1..Len(map) |->
                      IF map[i].component = names[1]
                        THEN importUsage(map[i], loc) ELSE map[i]]
       IN  importNames(next, Tail(names), lines, n, filePath, includeContext)

\* componentRefs.forEach of one line
RECURSIVE importsArrayRefs(_, _, _, _, _, _)
importsArrayRefs(map, refs, lines, n, filePath, includeContext) ==
  IF Len(refs) = 0 THEN map
  ELSE LET loc == Location(filePath, "typescript", n,
                    IF includeContext THEN getContextLines(lines, n - 1, 2) ELSE "",
                    "Component Import: " \o refs[1])
           next == [i \in 1..Len(map) |->
                      IF map[i].component = refs[1]
                        THEN importsArrayUsage(map[i], loc) ELSE map[i]]
       IN  importsArrayRefs(next, Tail(refs), lines, n, filePath, includeContext)

\* one call of the lines.forEach callback of scanTypeScriptFile
scanTypeScriptFile_line(map, lines, n, filePath, includeContext) ==
  LET importGroup == importMatch(lines[n])
      afterImports ==
        IF importGroup # NoMatch
          THEN importNames(map, splitTrim(importGroup), lines, n, filePath, includeContext)
          ELSE map
      arrayGroup == importsArrayMatch(lines[n])
  IN  IF arrayGroup # NoMatch
        THEN importsArrayRefs(afterImports, splitTrim(arrayGroup), lines, n, filePath,
                              includeContext)
        ELSE afterImports

\* one call of the lines.forEach callback of scanTemplateFile
scanTemplateFile_line(map, lines, n, filePath, includeContext) ==
  [i \in 1..Len(map) |->
     IF selectorRegexTest(map[i].selector, lines[n])
       THEN templateUsage(map[i],
              Location(filePath, "template", n,
                IF includeContext THEN getContextLines(lines, n - 1, 1) ELSE "",
                "Template: <" \o map[i].selector \o ">"))
       ELSE map[i]]

\* Array.prototype.sort((a, b) => b.totalUsages - a.totalUsages): stable
RECURSIVE insertByUsage(_, _)
insertByUsage(sorted, x) ==
  IF Len(sorted) = 0 THEN <<x>>
  ELSE IF sorted[1].totalUsages >= x.totalUsages
         THEN <<sorted[1]>> \o insertByUsage(Tail(sorted), x)
         ELSE <<x>> \o sorted

RECURSIVE sortByUsage(_)
sortByUsage(results) ==
  IF Len(results) = 0 THEN <<>>
  ELSE insertByUsage(sortByUsage(SubSeq(results, 1, Len(results) - 1)),
                     results[Len(results)])

\* Array.prototype.filter
RECURSIVE filterByTarget(_, _)
filterByTarget(results, targetComponent) ==
  IF Len(results) = 0 THEN <<>>
  ELSE (IF \/ includes(toLowerCase(results[1].component), toLowerCase(targetComponent))
           \/ includes(toLowerCase(results[1].selector), toLowerCase(targetComponent))
          THEN <<results[1]>> ELSE <<>>)
       \o filterByTarget(Tail(results), targetComponent)

\* analyzeComponentUsage ignoring its filter
analyzeComponentUsage_result_unfiltered(results, targetComponent) == sortByUsage(results)

\* lines 128-136: the value analyzeComponentUsage returns
analyzeComponentUsage_result(results, targetComponent) ==
  IF targetComponent # "" THEN filterByTarget(results, targetComponent)
  ELSE sortByUsage(results)

\* the condition of the first branch of the loop body of scanDirectory, line 281
scanDirectory_descends(item) ==
  /\ isDirectory(item)
  /\ ~startsWith(item.name, ".")
  /\ item.name # "node_modules"
  /\ item.name # "dist"

\* the arguments a caller passes to analyze_component_usage
TargetArgs == {"", "WComp", "APP-", "zz"}

NoCall == [made |-> FALSE, target |-> "", includeContext |-> FALSE, returned |-> <<>>]

\* prev is the previous invocation on this tree, once one has returned;
\* visited is the directories the walk under way has called readdir on
UsageIdle ==
  [pc |-> "idle", target |-> "", includeContext |-> FALSE, stack |-> <<>>,
   componentUsages |-> <<>>, file |-> "", lines |-> <<>>, n |-> 0,
   returned |-> <<>>, prev |-> NoCall, visited |-> <<>>]

srcPath == join(ANGULAR_PROJECT_PATH, "src")

\* handler entry: a new Map, then discoverComponents calls scanDirectory(srcPath)
AnalyzeComponentUsage_call(component, includeContext) ==
  /\ ua.pc \in {"idle", "done"}
  /\ ua' = [UsageIdle EXCEPT
              !.pc = "discover",
              !.target = component,
              !.includeContext = includeContext,
              !.stack = Enter(fs, <<>>, srcPath),
              !.visited = <<srcPath>>,
              !.prev = IF ua.pc = "done"
                         THEN [made |-> TRUE, target |-> ua.target,
                               includeContext |-> ua.includeContext,
                               returned |-> ua.returned]
                         ELSE NoCall]
  /\ UNCHANGED <<fs, ex, bg, tl, fsOps, rf, sc>>

\* a directory entry that is not excluded: await scanDirectory(fullPath, fileHandler)
scanDirectory_descend ==
  /\ ua.pc \in {"discover", "scan"}
  /\ HasItem(ua.stack)
  /\ scanDirectory_descends(TopItem(ua.stack))
  /\ ua' = [ua EXCEPT !.stack = Enter(fs, Advance(ua.stack), TopPath(ua.stack)),
                      !.visited = Append(@, TopPath(ua.stack))]
  /\ UNCHANGED <<fs, ex, bg, tl, fsOps, rf, sc>>

\* an entry that is neither: nothing is done for it
scanDirectory_skip ==
  /\ ua.pc \in {"discover", "scan"}
  /\ HasItem(ua.stack)
  /\ ~scanDirectory_descends(TopItem(ua.stack))
  /\ ~isFile(TopItem(ua.stack))
  /\ ua' = [ua EXCEPT !.stack = Advance(ua.stack)]
  /\ UNCHANGED <<fs, ex, bg, tl, fsOps, rf, sc>>

\* the loop of one scanDirectory call is over: the call returns
scanDirectory_return ==
  /\ ua.pc \in {"discover", "scan"}
  /\ Len(ua.stack) > 0
  /\ ~HasItem(ua.stack)
  /\ ua' = [ua EXCEPT !.stack = SubSeq(@, 1, Len(@) - 1)]
  /\ UNCHANGED <<fs, ex, bg, tl, fsOps, rf, sc>>

\* the file handler of discoverComponents on a regular file
discoverComponents_file ==
  /\ ua.pc = "discover"
  /\ HasItem(ua.stack)
  /\ ~scanDirectory_descends(TopItem(ua.stack))
  /\ isFile(TopItem(ua.stack))
  /\ LET filePath == TopPath(ua.stack)
     IN  ua' = [ua EXCEPT
                  !.stack = Advance(ua.stack),
                  !.componentUsages =
                    IF endsWith(filePath, ".component.ts") /\ readFileOk(fs, filePath)
                      THEN discoverComponents_register(@, readFileText(fs, filePath),
                             relative(ANGULAR_PROJECT_PATH, filePath))
                      ELSE @]
  /\ UNCHANGED <<fs, ex, bg, tl, fsOps, rf, sc>>

\* discoverComponents returns; scanForUsages calls scanDirectory(srcPath)
scanForUsages_call ==
  /\ ua.pc = "discover"
  /\ Len(ua.stack) = 0
  /\ ua' = [ua EXCEPT !.pc = "scan", !.stack = Enter(fs, <<>>, srcPath),
                      !.visited = <<srcPath>>]
  /\ UNCHANGED <<fs, ex, bg, tl, fsOps, rf, sc>>

\* the file handler of scanForUsages on a regular file: a file of an allowed
\* type is read, and a .ts or .html text is split into lines for its scan
scanForUsages_file ==
  /\ ua.pc = "scan"
  /\ HasItem(ua.stack)
  /\ ~scanDirectory_descends(TopItem(ua.stack))
  /\ isFile(TopItem(ua.stack))
  /\ LET filePath == TopPath(ua.stack)
         ext == extname(filePath)
         scanned == /\ arrayIncludes(ALLOWED_EXTENSIONS, ext)
                    /\ readFileOk(fs, filePath)
                    /\ ext \in {".ts", ".html"}
     IN  ua' = IF scanned
                 THEN [ua EXCEPT !.stack = Advance(ua.stack),
                                 !.pc = IF ext = ".ts" THEN "scanTs" ELSE "scanHtml",
                                 !.file = relative(ANGULAR_PROJECT_PATH, filePath),
                                 !.lines = split(readFileText(fs, filePath), "\n"),
                                 !.n = 1]
                 ELSE [ua EXCEPT !.stack = Advance(ua.stack)]
  /\ UNCHANGED <<fs, ex, bg, tl, fsOps, rf, sc>>

\* after the last line the file handler returns to the walk
AfterLine(u) ==
  IF u.n = Len(u.lines)
    THEN [u EXCEPT !.pc = "scan", !.file = "", !.lines = <<>>, !.n = 0]
    ELSE [u EXCEPT !.n = @ + 1]

\* scanTypeScriptFile: the forEach callback on the next line
scanTypeScriptFile_step ==
  /\ ua.pc = "scanTs"
  /\ ua' = AfterLine([ua EXCEPT !.componentUsages =
                        scanTypeScriptFile_line(@, ua.lines, ua.n, ua.file,
                                                ua.includeContext)])
  /\ UNCHANGED <<fs, ex, bg, tl, fsOps, rf, sc>>

\* scanTemplateFile: the forEach callback on the next line
scanTemplateFile_step ==
  /\ ua.pc = "scanHtml"
  /\ ua' = AfterLine([ua EXCEPT !.componentUsages =
                        scanTemplateFile_line(@, ua.lines, ua.n, ua.file,
                                              ua.includeContext)])
  /\ UNCHANGED <<fs, ex, bg, tl, fsOps, rf, sc>>

\* scanForUsages returns; Array.from(componentUsages.values()), filter or sort
analyzeComponentUsage_return ==
  /\ ua.pc = "scan"
  /\ Len(ua.stack) = 0
  /\ ua' = [ua EXCEPT !.pc = "done",
                      !.returned =
                        analyzeComponentUsage_result(ua.componentUsages, ua.target)]
  /\ UNCHANGED <<fs, ex, bg, tl, fsOps, rf, sc>>

(***************************************************************************)
(* The structure extractor: extractFileContext and the parse and extract   *)
(* functions behind it.  A match attempt of a regular expression at one    *)
(* position yields whether it matches, the strings the caller pushes for   *)
(* the match, and the last position of the match.                          *)
(***************************************************************************)
Fail == [ok |-> FALSE, cap |-> <<>>, end |-> 0]

Match(cap, end) == [ok |-> TRUE, cap |-> cap, end |-> end]

\* the literal lit stands at position i of s
Lit(s, i, lit) == sub(s, i, i + Len(lit) - 1) = lit

\* while ((match = regex.exec(content)) !== null) push: the pushed strings of
\* the successive matches from position `from` on, where m[i] is the attempt
\* at position i; each search starts after the match before it (lastIndex)
RECURSIVE execFrom(_, _, _)
execFrom(m, found, from) ==
  LET at == {i \in found : i >= from}
  IN  IF at = {} THEN <<>>
      ELSE LET hit == m[Min(at)] IN hit.cap \o execFrom(m, found, hit.end + 1)

execAll(m, from) == execFrom(m, {i \in DOMAIN m : m[i].ok}, from)

\* [...new Set(array)]: the first occurrence of every element, in order
RECURSIVE uniq(_)
uniq(array) ==
  IF Len(array) = 0 THEN <<>>
  ELSE LET front == uniq(SubSeq(array, 1, Len(array) - 1))
           x == array[Len(array)]
       IN  IF arrayIncludes(front, x) THEN front ELSE Append(front, x)

\* an array that outlives the call: it still holds what the call before left
NewArray_kept(left) == left

\* const array: string[] = [] at the head of an extractor: a new, empty array;
\* left is what the previous call of the extractor left in its array
NewArray(left) == <<>>

\* (\w+A|\w+B|...) tried at position i: the longest run of \w characters that
\* ends in the first of the suffixes that can end one
wordSuffixAt(s, i, suffixes) ==
  LET e == wordRunEnd(s, i)
      ends(n) == {k \in (i + Len(suffixes[n]))..e :
                    sub(s, k - Len(suffixes[n]) + 1, k) = suffixes[n]}
      can == {n \in 1..Len(suffixes) : ends(n) # {}}
  IN  IF can = {} THEN Fail
      ELSE Match(<<sub(s, i, Max(ends(Min(can))))>>, Max(ends(Min(can))))

\* the last position of the run of [\w-] characters that starts at position i
RECURSIVE tagRunEnd(_, _)
tagRunEnd(s, i) ==
  IF i <= Len(s) /\ (isWord(Ch(s, i)) \/ Ch(s, i) = "-") THEN tagRunEnd(s, i + 1)
  ELSE i - 1

\* extractImports, lines 258-278
extractImports(content, left) ==
  LET s == content
      \* \s+from\s+['"]([^'"]+)['"] after the import clause that ends at e
      tail(cap, e) ==
        LET g == skipSpaces(s, e + 1)
            j == skipSpaces(s, g + 4)
            q == firstQuote(s, j + 1)
        IN  IF /\ g > e + 1 /\ Lit(s, g, "from")
               /\ j > g + 4 /\ isQuote(Ch(s, j))
               /\ q > j + 1
              THEN Match(cap, q) ELSE Fail
      \* /import\s+(?:{([^}]+)}|\*\s+as\s+(\w+)|(\w+))\s+from\s+['"]([^'"]+)['"]/g
      importRegex(i) ==
        LET b == skipSpaces(s, i + 6)
            close == indexOf(s, "}", b + 1)
            as == skipSpaces(s, b + 1)
            ns == skipSpaces(s, as + 2)
        IN  IF ~(Lit(s, i, "import") /\ b > i + 6) THEN Fail
            ELSE IF Ch(s, b) = "{"
              THEN IF close > b + 1
                     THEN tail(splitTrim(sub(s, b + 1, close - 1)), close) ELSE Fail
            ELSE IF Ch(s, b) = "*"
              THEN IF as > b + 1 /\ Lit(s, as, "as") /\ ns > as + 2
                        /\ wordRunEnd(s, ns) >= ns
                     THEN tail(<<sub(s, ns, wordRunEnd(s, ns))>>, wordRunEnd(s, ns))
                     ELSE Fail
            ELSE IF wordRunEnd(s, b) >= b
              THEN tail(<<sub(s, b, wordRunEnd(s, b))>>, wordRunEnd(s, b))
            ELSE Fail
  IN  uniq(NewArray(left) \o execAll([i \in 1..Len(s) |-> importRegex(i)], 1))

\* extractExports, lines 283-301
extractExports(content, left) ==
  LET s == content
      keywords == <<"class", "interface", "function", "const", "let", "var", "enum", "type">>
      \* /export\s+(?:class|interface|function|const|let|var|enum|type)\s+(\w+)/g
      exportRegex(i) ==
        LET b == skipSpaces(s, i + 6)
            kw == {n \in 1..Len(keywords) : Lit(s, b, keywords[n])}
            d == skipSpaces(s, b + Len(keywords[Min(kw)]))
        IN  IF /\ Lit(s, i, "export") /\ b > i + 6
               /\ kw # {}
               /\ d > b + Len(keywords[Min(kw)])
               /\ wordRunEnd(s, d) >= d
              THEN Match(<<sub(s, d, wordRunEnd(s, d))>>, wordRunEnd(s, d)) ELSE Fail
      \* /export\s+{([^}]+)}/g
      namedExportRegex(i) ==
        LET b == skipSpaces(s, i + 6)
            close == indexOf(s, "}", b + 1)
        IN  IF /\ Lit(s, i, "export") /\ b > i + 6
               /\ Ch(s, b) = "{"
               /\ close > b + 1
              THEN Match(splitTrim(sub(s, b + 1, close - 1)), close) ELSE Fail
  IN  uniq(NewArray(left)
             \o execAll([i \in 1..Len(s) |-> exportRegex(i)], 1)
             \o execAll([i \in 1..Len(s) |-> namedExportRegex(i)], 1))

\* extractDependencies, lines 306-346
extractDependencies(content, left) ==
  LET s == content
      \* content.match(/imports:\s*\[([\s\S]*?)\]/): group 1 of the first match
      importsAt(i) ==
        LET a == skipSpaces(s, i + 8)
            close == indexOf(s, "]", a + 1)
        IN  IF Lit(s, i, "imports:") /\ Ch(s, a) = "[" /\ close # 0
              THEN Match(<<sub(s, a + 1, close - 1)>>, close) ELSE Fail
      importsFound == {i \in 1..Len(s) : importsAt(i).ok}
      importsList == IF importsFound = {} THEN "" ELSE importsAt(Min(importsFound)).cap[1]
      \* importsList.match(/(\w+Component|\w+Directive|\w+Pipe)/g)
      componentMatches ==
        execAll([i \in 1..Len(importsList) |->
                   wordSuffixAt(importsList, i, <<"Component", "Directive", "Pipe">>)], 1)
      \* content.match(/inject\((\w+)\)/g), then group 1 of each match
      injectRegex(i) ==
        LET e == wordRunEnd(s, i + 7)
        IN  IF Lit(s, i, "inject(") /\ e >= i + 7 /\ Ch(s, e + 1) = ")"
              THEN Match(<<sub(s, i + 7, e)>>, e + 1) ELSE Fail
      \* content.match(/constructor\(([\s\S]*?)\)/): group 1 of the first match
      constructorAt(i) ==
        LET close == indexOf(s, ")", i + 12)
        IN  IF Lit(s, i, "constructor(") /\ close # 0
              THEN Match(<<sub(s, i + 12, close - 1)>>, close) ELSE Fail
      constructorFound == {i \in 1..Len(s) : constructorAt(i).ok}
      params ==
        IF constructorFound = {} THEN "" ELSE constructorAt(Min(constructorFound)).cap[1]
      \* params.match(/:\s*(\w+Service|\w+Client)/g), then /:\s*(\w+)/ on each match
      serviceRegex(i) ==
        IF Ch(params, i) = ":"
          THEN wordSuffixAt(params, skipSpaces(params, i + 1), <<"Service", "Client">>)
          ELSE Fail
  IN  uniq(NewArray(left)
             \o componentMatches
             \o execAll([i \in 1..Len(s) |-> injectRegex(i)], 1)
             \o execAll([i \in 1..Len(params) |-> serviceRegex(i)], 1))

\* extractInterfaces, lines 351-367
extractInterfaces(content, left) ==
  LET s == content
      \* word\s+(\w+) at position p
      declared(word, p) ==
        LET d == skipSpaces(s, p + Len(word))
        IN  IF Lit(s, p, word) /\ d > p + Len(word) /\ wordRunEnd(s, d) >= d
              THEN Match(<<sub(s, d, wordRunEnd(s, d))>>, wordRunEnd(s, d)) ELSE Fail
      \* /(?:export\s+)?interface\s+(\w+)/g and /(?:export\s+)?type\s+(\w+)/g
      declRegex(word, i) ==
        LET b == skipSpaces(s, i + 6)
        IN  IF Lit(s, i, "export") /\ b > i + 6 /\ declared(word, b).ok
              THEN declared(word, b) ELSE declared(word, i)
  IN  uniq(NewArray(left)
             \o execAll([i \in 1..Len(s) |-> declRegex("interface", i)], 1)
             \o execAll([i \in 1..Len(s) |-> declRegex("type", i)], 1))

\* extractMethods, lines 372-388
extractMethods(content, left) ==
  LET s == content
      \* an optional group word\s+ at position p: the positions the match can
      \* go on from, the one after the group first
      opt(word, p) ==
        LET d == skipSpaces(s, p + Len(word))
        IN  IF Lit(s, p, word) /\ d > p + Len(word) THEN <<d, p>> ELSE <<p>>
      flat(ps, word) == IF Len(ps) = 2 THEN opt(word, ps[1]) \o opt(word, ps[2])
                        ELSE opt(word, ps[1])
      getSet(p) == (IF opt("get", p) # <<p>> THEN <<opt("get", p)[1]>> ELSE <<>>)
                     \o (IF opt("set", p) # <<p>> THEN <<opt("set", p)[1]>> ELSE <<>>)
                     \o <<p>>
      \* (\w+)\s*\([^)]*\)\s*(?::\s*[^{]+)?{ at position p
      core(p) ==
        LET e == wordRunEnd(s, p)
            a == skipSpaces(s, e + 1)
            close == indexOf(s, ")", a + 1)
            g == skipSpaces(s, close + 1)
            brace == indexOf(s, "{", g + 1)
            name == sub(s, p, e)
            cap == IF name \in {"constructor", "ngOnInit", "ngOnDestroy", "ngOnChanges"}
                     THEN <<>> ELSE <<name>>
        IN  IF ~(e >= p /\ Ch(s, a) = "(" /\ close # 0) THEN Fail
            ELSE IF Ch(s, g) = "{" THEN Match(cap, g)
            ELSE IF Ch(s, g) = ":" /\ brace > g + 1 THEN Match(cap, brace)
            ELSE Fail
      \* /(?:public\s+)?(?:readonly\s+)?(?:get\s+|set\s+)?(\w+)\s*\([^)]*\)\s*(?::\s*[^{]+)?{/g
      methodRegex(i) ==
        LET starts == flat(opt("public", i), "readonly")
            cands == IF Len(starts) = 1 THEN getSet(starts[1])
                     ELSE IF Len(starts) = 2 THEN getSet(starts[1]) \o getSet(starts[2])
                     ELSE IF Len(starts) = 3
                       THEN getSet(starts[1]) \o getSet(starts[2]) \o getSet(starts[3])
                     ELSE getSet(starts[1]) \o getSet(starts[2]) \o getSet(starts[3])
                            \o getSet(starts[4])
            good == {n \in 1..Len(cands) : core(cands[n]).ok}
        IN  IF good = {} THEN Fail ELSE core(cands[Min(good)])
  IN  uniq(NewArray(left) \o execAll([i \in 1..Len(s) |-> methodRegex(i)], 1))

\* extractComponentUsage, lines 393-410
extractComponentUsage(content, left) ==
  LET s == content
      \* /<(app-[\w-]+)/g
      tagRegex(i) ==
        IF Lit(s, i, "<app-") /\ tagRunEnd(s, i + 5) >= i + 5
          THEN Match(<<sub(s, i + 1, tagRunEnd(s, i + 5))>>, tagRunEnd(s, i + 5))
          ELSE Fail
  IN  uniq(NewArray(left)
             \o execAll([i \in 1..Len(s) |-> tagRegex(i)], 1)
             \* /(\w+Component)/g
             \o execAll([i \in 1..Len(s) |-> wordSuffixAt(s, i, <<"Component">>)], 1))

\* extractServiceUsage, lines 415-426: /(\w+Service|\w+Client)/g
extractServiceUsage(content, left) ==
  uniq(NewArray(left)
         \o execAll([i \in 1..Len(content) |->
                       wordSuffixAt(content, i, <<"Service", "Client">>)], 1))

\* the summary of a file: the fields the parser filled in and their arrays
EmptySummary ==
  [fields |-> {}, imports |-> <<>>, exports |-> <<>>, dependencies |-> <<>>,
   interfaces |-> <<>>, methods |-> <<>>, components |-> <<>>, services |-> <<>>]

\* the object parseTypeScriptFile returns for a text, lines 220-228
parseTypeScriptFile(content, left) ==
  [fields |-> {"imports", "exports", "dependencies", "interfaces", "methods",
               "components", "services"},
   imports |-> extractImports(content, left.imports),
   exports |-> extractExports(content, left.exports),
   dependencies |-> extractDependencies(content, left.dependencies),
   interfaces |-> extractInterfaces(content, left.interfaces),
   methods |-> extractMethods(content, left.methods),
   components |-> extractComponentUsage(content, left.components),
   services |-> extractServiceUsage(content, left.services)]

\* the object parseTemplateFile returns for a text, lines 435-438
parseTemplateFile(content, left) ==
  [EmptySummary EXCEPT !.fields = {"components"},
                       !.components = extractComponentUsage(content, left.components)]

\* the object parseInterfaceFile returns for a text, lines 451-456
parseInterfaceFile(content, left) ==
  [EmptySummary EXCEPT !.fields = {"interfaces", "exports", "imports"},
                       !.interfaces = extractInterfaces(content, left.interfaces),
                       !.exports = extractExports(content, left.exports),
                       !.imports = extractImports(content, left.imports)]

\* a dispatch that parses a file of any kind as TypeScript
extractFileContext_parser_always(fileType) == "typescript"

\* the switch of extractFileContext, lines 238-252: the parser of a kind
extractFileContext_parser(fileType) ==
  IF fileType \in {"component", "service", "typescript"} THEN "typescript"
  ELSE IF fileType = "template" THEN "template"
  ELSE IF fileType = "interface" THEN "interface"
  ELSE "none"

\* catch (error) { return {}; } of the three parsers
parseFile_catch == [raised |-> FALSE, summary |-> EmptySummary]

NoExtract == [made |-> FALSE, filePath |-> "", fileType |-> "", summary |-> EmptySummary]

\* first is the first invocation of the session, once it has returned; left
\* is what the last call of each extractor left in its array; stale says that
\* the component array of the call before held other strings than this parse
\* returns; ops is the file-system calls of this invocation, in order
ExtractIdle ==
  [pc |-> "idle", filePath |-> "", fileType |-> "", parser |-> "none",
   summary |-> EmptySummary, raised |-> FALSE, left |-> EmptySummary,
   stale |-> FALSE, ops |-> <<>>, first |-> NoExtract]

\* the arguments a caller passes to extractFileContext
ExtractPaths == {"/w/nb/.h/h.ts", "/w/nb/src/p.html", "/w/nb/a.ts"}

ExtractKinds == {"component", "service", "typescript", "template", "interface", "style"}

\* extractFileContext(filePath, fileType): the switch; a kind without a parser
\* returns {} at once
ExtractFileContext_call(filePath, fileType) ==
  /\ ex.pc \in {"idle", "done"}
  /\ ex' = [ex EXCEPT
              !.pc = IF extractFileContext_parser(fileType) = "none" THEN "done" ELSE "read",
              !.filePath = filePath,
              !.fileType = fileType,
              !.parser = extractFileContext_parser(fileType),
              !.summary = EmptySummary,
              !.raised = FALSE,
              !.stale = FALSE,
              !.ops = <<>>,
              !.first = IF ex.pc = "done" /\ ~ex.first.made
                          THEN [made |-> TRUE, filePath |-> ex.filePath,
                                fileType |-> ex.fileType, summary |-> ex.summary]
                          ELSE ex.first]
  /\ UNCHANGED <<fs, fsOps, rf, sc, ua, bg, tl>>

\* the parser: const content = await readFile(filePath, 'utf-8') inside the
\* try, then the object of the extractors' results; the catch returns {}
parseFile_readFile ==
  /\ ex.pc = "read"
  /\ LET read == [ex EXCEPT !.pc = "done",
                            !.ops = Append(@, [op |-> "readFile", path |-> ex.filePath])]
     IN  IF readFileOk(fs, ex.filePath)
           THEN \E summary \in
                     {LET content == readFileText(fs, ex.filePath)
                      IN  IF ex.parser = "typescript"
                            THEN parseTypeScriptFile(content, ex.left)
                          ELSE IF ex.parser = "template"
                            THEN parseTemplateFile(content, ex.left)
                          ELSE parseInterfaceFile(content, ex.left)} :
                  ex' = [read EXCEPT
                           !.summary = summary,
                           !.left = [f \in DOMAIN ex.left |->
                                       IF f \in summary.fields THEN summary[f]
                                       ELSE ex.left[f]],
                           !.stale = /\ ex.left.components # <<>>
                                     /\ ex.left.components # summary.components]
           ELSE ex' = [read EXCEPT !.summary = parseFile_catch.summary,
                                   !.raised = parseFile_catch.raised]
  /\ UNCHANGED <<fs, fsOps, rf, sc, ua, bg, tl>>


(***************************************************************************)
(* The tools that keep nothing between their file-system calls:            *)
(* generate_component_boilerplate, get_ui_components and                   *)
(* analyze_angular_architecture.  An invocation is one step: the calls the *)
(* handler makes on the tree, in order, and its response.                  *)
(***************************************************************************)
ToolIdle == [pc |-> "idle", tool |-> "", isError |-> FALSE, text |-> ""]

Call(op, path) == [op |-> op, path |-> path]

\* name.toLowerCase().replace(/[^a-z0-9]/g, '-') of generateComponentTemplate
RECURSIVE kebabName(_)
kebabName(name) ==
  IF Len(name) = 0 THEN ""
  ELSE LET c == lowerChar(sub(name, 1, 1))
       IN  (IF includes(LowerLetters \o Digits, c) THEN c ELSE "-")
             \o kebabName(sub(name, 2, Len(name)))

\* the switch of analyzeExistingPatterns: the component whose text is read for
\* its patterns; samplePath stays '' for a type the switch does not know
samplePath(type) ==
  IF type = "ui" THEN "src/app/shared/components/ui/button/button.component.ts"
  ELSE IF type = "layout" THEN "src/app/layout/header/header.component.ts"
  ELSE IF type \in {"feature", "page"}
    THEN "src/app/features/dashboard/dashboard.component.ts"
  ELSE ""

\* a handler that writes the TypeScript file of the template into the project
generateComponentBoilerplate_tree_written(F, template) ==
  [p \in DOMAIN F \cup {"/w/nb/" \o template.name \o ".component.ts"} |->
     IF p \in DOMAIN F THEN F[p] ELSE File(TRUE, template.selector)]

\* the tree after the handler of generate_component_boilerplate: the files of
\* the template go into the text of the response and nowhere else
generateComponentBoilerplate_tree(F, template) == F

\* the handler of generate_component_boilerplate: analyzeExistingPatterns reads
\* the sample component inside a try with an empty catch, the template is
\* generated from the name, and the response is the formatted text, of which
\* the model keeps the first usage instruction
GenerateComponentBoilerplate_call(name, type) ==
  /\ tl.pc = "idle"
  /\ LET template == [name |-> kebabName(name), selector |-> "app-" \o kebabName(name)]
     IN  /\ fsOps' = Append(fsOps, Call("readFile",
                                        join(ANGULAR_PROJECT_PATH, samplePath(type))))
         /\ tl' = [pc |-> "done", tool |-> "generate_component_boilerplate",
                   isError |-> FALSE,
                   text |-> "mkdir -p src/app/shared/components/ui/" \o template.name]
         /\ fs' = generateComponentBoilerplate_tree(fs, template)
  /\ UNCHANGED <<rf, sc, ua, ex, bg>>

uiComponentsPath == join(ANGULAR_PROJECT_PATH, "src/app/shared/components/ui")

\* the file-system calls of getComponentDetails: the component's TypeScript
\* file, then its template and its README, each of the two in a try of its own
getComponentDetails_calls(F, componentName) ==
  LET componentDir == join(uiComponentsPath, componentName)
      tsFile == join(componentDir, componentName \o ".component.ts")
  IN  <<Call("readFile", tsFile)>>
        \o (IF readFileOk(F, tsFile)
              THEN <<Call("readFile", join(componentDir, componentName \o ".component.html")),
                     Call("readFile",
                          join(componentDir, componentName \o ".component.readme.md"))>>
              ELSE <<>>)

\* the file-system calls of the loop of getAllComponentsOverview over the
\* entries from position i on: the TypeScript file of every directory
RECURSIVE getAllComponentsOverview_loop(_, _, _)
getAllComponentsOverview_loop(F, componentDirs, i) ==
  IF i > Len(componentDirs) THEN <<>>
  ELSE (IF isDirectory(componentDirs[i])
          THEN <<Call("readFile",
                      join(join(uiComponentsPath, componentDirs[i].name),
                           componentDirs[i].name \o ".component.ts"))>>
          ELSE <<>>)
         \o getAllComponentsOverview_loop(F, componentDirs, i + 1)

\* the handler of get_ui_components: the details of one component, or the
\* overview of all; a component whose TypeScript file cannot be read and a
\* components directory that cannot be read end in the handler's catch
GetUiComponents_call(component) ==
  /\ tl.pc = "idle"
  /\ fsOps' = fsOps \o
       (IF component # "" THEN getComponentDetails_calls(fs, component)
        ELSE <<Call("readdir", uiComponentsPath)>>
               \o (IF readdirOk(fs, uiComponentsPath)
                     THEN getAllComponentsOverview_loop(fs, readdir(fs, uiComponentsPath), 1)
                     ELSE <<>>))
  /\ tl' = [pc |-> "done", tool |-> "get_ui_components",
            isError |-> IF component # ""
                          THEN ~readFileOk(fs, join(join(uiComponentsPath, component),
                                                    component \o ".component.ts"))
                          ELSE ~readdirOk(fs, uiComponentsPath),
            text |-> component]
  /\ UNCHANGED <<fs, rf, sc, ua, ex, bg>>

\* the file-system calls of searchFiles(currentDir) inside findComponentFiles
\* (suffix '.component.ts': hidden directories and node_modules are not
\* entered, a file that is read is also stat-ed) and inside findServiceFiles
\* (suffix '.service.ts': every directory is entered), from entry i on
RECURSIVE findFiles_calls(_, _, _, _)
findFiles_calls(F, currentDir, suffix, i) ==
  IF i = 0
    THEN <<Call("readdir", currentDir)>>
           \o (IF readdirOk(F, currentDir) THEN findFiles_calls(F, currentDir, suffix, 1)
               ELSE <<>>)
  ELSE IF i > Len(readdir(F, currentDir)) THEN <<>>
  ELSE LET item == readdir(F, currentDir)[i]
           fullPath == join(currentDir, item.name)
           enters == /\ isDirectory(item)
                     /\ \/ suffix = ".service.ts"
                        \/ ~startsWith(item.name, ".") /\ item.name # "node_modules"
       IN  (IF enters THEN findFiles_calls(F, fullPath, suffix, 0)
            ELSE IF endsWith(item.name, suffix)
              THEN <<Call("readFile", fullPath)>>
                     \o (IF suffix = ".component.ts" /\ readFileOk(F, fullPath)
                           THEN <<Call("stat", fullPath)>> ELSE <<>>)
            ELSE <<>>)
             \o findFiles_calls(F, currentDir, suffix, i + 1)

\* the file-system calls of the analysis of one focus area
analyze_calls(F, focusArea) ==
  IF focusArea = "components"
    THEN findFiles_calls(F, join(ANGULAR_PROJECT_PATH, "src/app"), ".component.ts", 0)
  ELSE IF focusArea = "services"
    THEN findFiles_calls(F, join(ANGULAR_PROJECT_PATH, "src/app/core/services"),
                         ".service.ts", 0)
  ELSE IF focusArea = "routing"
    THEN <<Call("readFile", join(ANGULAR_PROJECT_PATH, "src/app/app.routes.ts"))>>
  ELSE IF focusArea = "models"
    THEN <<Call("readFile", join(ANGULAR_PROJECT_PATH, "src/app/core/models/index.ts"))>>
  ELSE <<>>

\* the handler of analyze_angular_architecture: the switch over the focus
\* area; 'all' runs the five analyses in order; the analyses catch what their
\* file-system calls throw
AnalyzeArchitecture_call(focusArea) ==
  /\ tl.pc = "idle"
  /\ fsOps' = fsOps \o
       (IF focusArea = "all"
          THEN analyze_calls(fs, "components") \o analyze_calls(fs, "services")
                 \o analyze_calls(fs, "routing") \o analyze_calls(fs, "models")
                 \o analyze_calls(fs, "patterns")
          ELSE analyze_calls(fs, focusArea))
  /\ tl' = [pc |-> "done", tool |-> "analyze_angular_architecture",
            isError |-> FALSE, text |-> focusArea]
  /\ UNCHANGED <<fs, rf, sc, ua, ex, bg>>


\* no invocation waits.  ops is the log of the search that waits; mixed says
\* that the scheduler has switched between two invocations that both were
\* under way
NoneWaiting == [sc |-> SearchIdle, ua |-> UsageIdle, ops |-> <<>>, mixed |-> FALSE]

InitUsage ==
  /\ fs \in {Tree(k) : k \in {c \in Choices : ~c.extra /\ c.aOk /\ c.exe /\ ~c.big /\ c.uOk /\ c.uiOk}}
  /\ fsOps = <<>>
  /\ rf = Idle
  /\ sc = SearchIdle
  /\ ua = UsageIdle
  /\ ex = ExtractIdle
  /\ bg = NoneWaiting
  /\ tl = ToolIdle

NextUsage ==
  \/ \E component \in TargetArgs, includeContext \in BOOLEAN :
       AnalyzeComponentUsage_call(component, includeContext)
  \/ scanDirectory_descend
  \/ scanDirectory_skip
  \/ scanDirectory_return
  \/ discoverComponents_file
  \/ scanForUsages_call
  \/ scanForUsages_file
  \/ scanTypeScriptFile_step
  \/ scanTemplateFile_step
  \/ analyzeComponentUsage_return

SpecUsage == InitUsage /\ [][NextUsage]_vars

InitSearch ==
  /\ fs \in {Tree(k) : k \in {c \in Choices : ~c.extra /\ c.aOk /\ c.exe /\ ~c.rev /\ (c.uiOk \/ c.uOk)}}
  /\ fsOps = <<>>
  /\ rf = Idle
  /\ sc = SearchIdle
  /\ ua = UsageIdle
  /\ ex = ExtractIdle
  /\ bg = NoneWaiting
  /\ tl = ToolIdle

NextSearch ==
  \/ \E query \in Queries, fileTypes \in FileTypeArgs, directory \in DirectoryArgs :
       SearchCodebase_call(query, fileTypes, directory)
  \/ searchFiles_descend
  \/ searchFiles_readFile
  \/ searchFiles_skip
  \/ searchFiles_return
  \/ performSearch_return
  \/ countFiles_descend
  \/ countFiles_count
  \/ countFiles_skip
  \/ countFiles_return
  \/ countSearchableFiles_return

SpecSearch == InitSearch /\ [][NextSearch]_vars

InitGuard ==
  /\ fs \in {Tree(k) : k \in {c \in Choices : ~c.extra /\ ~c.big /\ c.srcOk /\ c.uiOk /\ c.uOk /\ ~c.rev}}
  /\ fsOps = <<>>
  /\ rf = Idle
  /\ sc = SearchIdle
  /\ ua = UsageIdle
  /\ ex = ExtractIdle
  /\ bg = NoneWaiting
  /\ tl = ToolIdle

NextGuard ==
  \/ \E filePath \in ReadInputs : ReadFile_call(filePath)
  \/ validateFilePath_access
  \/ validateFilePath_stat
  \/ ReadFile_readFile
  \/ ReadFile_stat

SpecGuard == InitGuard /\ [][NextGuard]_vars

(***************************************************************************)
(* extractFileContext called again and again on one tree                   *)
(***************************************************************************)
InitExtract ==
  /\ fs \in {Tree(k) : k \in {c \in Choices : ~c.extra /\ ~c.aOk /\ c.exe /\ ~c.big /\ c.srcOk
                                               /\ c.uiOk /\ c.uOk /\ ~c.rev}}
  /\ fsOps = <<>>
  /\ rf = Idle
  /\ sc = SearchIdle
  /\ ua = UsageIdle
  /\ ex = ExtractIdle
  /\ bg = NoneWaiting
  /\ tl = ToolIdle

NextExtract ==
  \/ \E filePath \in ExtractPaths, fileType \in ExtractKinds :
       ExtractFileContext_call(filePath, fileType)
  \/ parseFile_readFile

SpecExtract == InitExtract /\ [][NextExtract]_vars

(***************************************************************************)
(* The same search twice: a search_codebase invocation and, once it has    *)
(* returned, a second one in the same directory with the same file types.  *)
(***************************************************************************)
RepeatQueries == {"ab", "AB", "Ab", "c", "zz"}

RepeatFileTypeArgs == {<<"*">>, <<".ts">>}

RepeatDirectoryArgs == {"", "src"}

InitRepeat ==
  /\ fs \in {Tree(k) : k \in {c \in Choices : ~c.extra /\
                                c.exe /\ ~c.big /\ c.srcOk /\ c.uiOk /\ c.uOk /\ ~c.rev}}
  /\ fsOps = <<>>
  /\ rf = Idle
  /\ sc = SearchIdle
  /\ ua = UsageIdle
  /\ ex = ExtractIdle
  /\ bg = NoneWaiting
  /\ tl = ToolIdle

NextRepeat ==
  \/ \E query \in RepeatQueries, fileTypes \in RepeatFileTypeArgs,
        directory \in RepeatDirectoryArgs :
       SearchCodebase_call(query, fileTypes, directory)
  \/ \E query \in RepeatQueries : SearchCodebase_again(query)
  \/ searchFiles_descend
  \/ searchFiles_readFile
  \/ searchFiles_skip
  \/ searchFiles_return
  \/ performSearch_return
  \/ countFiles_descend
  \/ countFiles_count
  \/ countFiles_skip
  \/ countFiles_return
  \/ countSearchableFiles_return

SpecRepeat == InitRepeat /\ [][NextRepeat]_vars

(***************************************************************************)
(* One session of the server: the requests are served one after the other, *)
(* a search_codebase invocation and then analyze_component_usage           *)
(* invocations, on a tree whose directories src and src/ui may be          *)
(* unreadable.                                                             *)
(***************************************************************************)
ScanQueries == {"ab", "zz"}

ScanFileTypeArgs == {<<"*">>, <<".exe", ".md", ".js">>}

ScanDirectoryArgs == {"", "src", "src/ui"}

InitScan ==
  /\ fs \in {Tree(k) : k \in {c \in Choices : ~c.extra /\ c.aOk /\ c.exe /\ ~c.big /\ c.uOk}}
  /\ fsOps = <<>>
  /\ rf = Idle
  /\ sc = SearchIdle
  /\ ua = UsageIdle
  /\ ex = ExtractIdle
  /\ bg = NoneWaiting
  /\ tl = ToolIdle

\* the next request arrives once the search has been answered
Scan_usage_call ==
  /\ sc.pc = "done"
  /\ \E includeContext \in BOOLEAN : AnalyzeComponentUsage_call("", includeContext)

NextScan ==
  \/ \E query \in ScanQueries, fileTypes \in ScanFileTypeArgs,
        directory \in ScanDirectoryArgs :
       SearchCodebase_call(query, fileTypes, directory)
  \/ searchFiles_descend
  \/ searchFiles_readFile
  \/ searchFiles_skip
  \/ searchFiles_return
  \/ performSearch_return
  \/ countFiles_descend
  \/ countFiles_count
  \/ countFiles_skip
  \/ countFiles_return
  \/ countSearchableFiles_return
  \/ Scan_usage_call
  \/ scanDirectory_descend
  \/ scanDirectory_skip
  \/ scanDirectory_return
  \/ discoverComponents_file
  \/ scanForUsages_call
  \/ scanForUsages_file
  \/ scanTypeScriptFile_step
  \/ scanTemplateFile_step
  \/ analyzeComponentUsage_return

SpecScan == InitScan /\ [][NextScan]_vars

(***************************************************************************)
(* One request to any of the six tools on a tree of the session above; a   *)
(* search may be followed by usage analyses.                               *)
(***************************************************************************)
BoilerplateNames == {"Task Card", "x9"}

BoilerplateTypes == {"ui", "layout", "page", "zz"}

UiComponentArgs == {"", "button"}

FocusAreas == {"components", "services", "routing", "models", "patterns", "all"}

\* no request has been received yet
Quiet == rf.pc = "idle" /\ sc.pc = "idle" /\ ua.pc = "idle" /\ tl.pc = "idle"

NextTools ==
  \/ Quiet /\ \E filePath \in ReadInputs : ReadFile_call(filePath)
  \/ validateFilePath_access
  \/ validateFilePath_stat
  \/ ReadFile_readFile
  \/ ReadFile_stat
  \/ Quiet /\ \E query \in ScanQueries, fileTypes \in ScanFileTypeArgs,
                 directory \in ScanDirectoryArgs :
                SearchCodebase_call(query, fileTypes, directory)
  \/ searchFiles_descend
  \/ searchFiles_readFile
  \/ searchFiles_skip
  \/ searchFiles_return
  \/ performSearch_return
  \/ countFiles_descend
  \/ countFiles_count
  \/ countFiles_skip
  \/ countFiles_return
  \/ countSearchableFiles_return
  \/ Scan_usage_call
  \/ scanDirectory_descend
  \/ scanDirectory_skip
  \/ scanDirectory_return
  \/ discoverComponents_file
  \/ scanForUsages_call
  \/ scanForUsages_file
  \/ scanTypeScriptFile_step
  \/ scanTemplateFile_step
  \/ analyzeComponentUsage_return
  \/ Quiet /\ \E name \in BoilerplateNames, type \in BoilerplateTypes :
                GenerateComponentBoilerplate_call(name, type)
  \/ Quiet /\ \E component \in UiComponentArgs : GetUiComponents_call(component)
  \/ Quiet /\ \E focusArea \in FocusAreas : AnalyzeArchitecture_call(focusArea)

SpecTools == InitScan /\ [][NextTools]_vars

(***************************************************************************)
(* Two invocations under way at once.  A handler runs until its next await *)
(* and another handler may run before it goes on: sc and ua are the search *)
(* and the usage analysis that run next, bg holds a second search and a    *)
(* second usage analysis that wait.  An invocation first runs with no      *)
(* other under way, and is then made again with the same arguments while   *)
(* another one is under way.                                               *)
(***************************************************************************)
PairQueries == {"ab", "app-w"}

PairDirectoryArgs == {"src"}

PairTargets == {"", "WComp"}

\* the event loop goes on with the search that waited
Switch_search ==
  /\ ua.pc = "idle" /\ bg.ua.pc = "idle"
  /\ sc.pc # "idle" \/ bg.sc.pc # "idle"
  /\ bg.sc.pc = "idle" => (sc.pc = "done" \/ sc.prev.made)
  /\ bg' = [bg EXCEPT !.sc = sc, !.ops = fsOps,
                      !.mixed = @ \/ (/\ sc.pc \in {"search", "count"}
                                      /\ bg.sc.pc \in {"search", "count"}
                                      /\ sc.results # <<>>
                                      /\ bg.sc.results # <<>>)]
  /\ sc' = bg.sc
  /\ fsOps' = bg.ops
  /\ UNCHANGED <<fs, rf, ua, ex, tl>>

\* the event loop goes on with the usage analysis that waited
Switch_usage ==
  /\ sc.pc = "idle" /\ bg.sc.pc = "idle"
  /\ ua.pc # "idle" \/ bg.ua.pc # "idle"
  /\ bg.ua.pc = "idle" => (ua.pc = "done" \/ ua.prev.made)
  /\ bg' = [bg EXCEPT !.ua = ua,
                      !.mixed = @ \/ (/\ ua.pc \in {"discover", "scan"}
                                      /\ bg.ua.pc \in {"discover", "scan"}
                                      /\ ua.componentUsages # <<>>
                                      /\ bg.ua.componentUsages # <<>>)]
  /\ ua' = bg.ua
  /\ UNCHANGED <<fs, fsOps, rf, sc, ex, tl>>

\* no invocation has been made yet
NoneMade ==
  sc.pc = "idle" /\ bg.sc.pc = "idle" /\ ua.pc = "idle" /\ bg.ua.pc = "idle"

\* one invocation has been made a second time
Repeated == sc.prev.made \/ bg.sc.prev.made \/ ua.prev.made \/ bg.ua.prev.made

\* a search arrives: the first invocation of the session, or a search while
\* another search waits, or a search beside a usage analysis that has
\* returned once
Pair_search_call ==
  /\ \/ NoneMade
     \/ bg.sc.pc # "idle" /\ ua.pc = "idle" /\ bg.ua.pc = "idle"
     \/ bg.sc.pc = "idle" /\ bg.ua.pc = "idle" /\ (ua.pc = "done" \/ ua.prev.made)
  /\ \E query \in PairQueries, directory \in PairDirectoryArgs :
       SearchCodebase_call(query, <<"*">>, directory)

\* the search that has returned is made again with the same arguments
Pair_search_again ==
  /\ ~Repeated
  /\ SearchCodebase_again(sc.query)

\* a usage analysis arrives: the first invocation of the session, or one
\* while another waits, or one beside a search that has returned once
Pair_usage_call ==
  /\ ua.pc = "idle"
  /\ \/ NoneMade
     \/ bg.ua.pc # "idle" /\ sc.pc = "idle" /\ bg.sc.pc = "idle"
     \/ bg.ua.pc = "idle" /\ bg.sc.pc = "idle" /\ (sc.pc = "done" \/ sc.prev.made)
  /\ \E component \in PairTargets : AnalyzeComponentUsage_call(component, TRUE)

\* the usage analysis that has returned is made again with the same arguments
Pair_usage_again ==
  /\ ~Repeated
  /\ ua.pc = "done"
  /\ AnalyzeComponentUsage_call(ua.target, ua.includeContext)

InitPair ==
  /\ fs \in {Tree(k) : k \in {c \in Choices : ~c.extra /\ c.aOk /\ c.exe /\ ~c.big /\ c.srcOk
                                               /\ c.uiOk /\ c.uOk /\ ~c.rev}}
  /\ fsOps = <<>>
  /\ rf = Idle
  /\ sc = SearchIdle
  /\ ua = UsageIdle
  /\ ex = ExtractIdle
  /\ bg = NoneWaiting
  /\ tl = ToolIdle

NextPair ==
  \/ Pair_search_call
  \/ Pair_search_again
  \/ Pair_usage_call
  \/ Pair_usage_again
  \/ Switch_search
  \/ Switch_usage
  \/ searchFiles_descend
  \/ searchFiles_readFile
  \/ searchFiles_skip
  \/ searchFiles_return
  \/ performSearch_return
  \/ countFiles_descend
  \/ countFiles_count
  \/ countFiles_skip
  \/ countFiles_return
  \/ countSearchableFiles_return
  \/ scanDirectory_descend
  \/ scanDirectory_skip
  \/ scanDirectory_return
  \/ discoverComponents_file
  \/ scanForUsages_call
  \/ scanForUsages_file
  \/ scanTypeScriptFile_step
  \/ scanTemplateFile_step
  \/ analyzeComponentUsage_return

SpecPair == InitPair /\ [][NextPair]_vars

(***************************************************************************)
(* analyzeComponentUsage on a tree whose src has a directory layout with a *)
(* second file that declares WComponent, a component file without a        *)
(* selector field, and a symbolic link back to src.                        *)
(***************************************************************************)
InitDiscover ==
  /\ fs \in {Tree(k) : k \in {c \in Choices : c.extra /\ c.aOk /\ c.exe /\ ~c.big
                                               /\ c.srcOk /\ c.uiOk /\ c.uOk}}
  /\ fsOps = <<>>
  /\ rf = Idle
  /\ sc = SearchIdle
  /\ ua = UsageIdle
  /\ ex = ExtractIdle
  /\ bg = NoneWaiting
  /\ tl = ToolIdle

SpecDiscover == InitDiscover /\ [][NextUsage]_vars

(***************************************************************************)
(* The three traversals, one after the other, on a tree with a symbolic    *)
(* link src/layout/up that leads back to src.                              *)
(***************************************************************************)
InitWalk ==
  /\ fs \in {Tree(k) : k \in {c \in Choices : c.extra /\ c.aOk /\ c.exe /\ ~c.big
                                               /\ c.srcOk /\ c.uiOk /\ c.uOk}}
  /\ fsOps = <<>>
  /\ rf = Idle
  /\ sc = SearchIdle
  /\ ua = UsageIdle
  /\ ex = ExtractIdle
  /\ bg = NoneWaiting
  /\ tl = ToolIdle

SpecWalk == InitWalk /\ [][NextScan]_vars

(***************************************************************************)
(* read_file while another process removes the validated file or takes its *)
(* read permission away, after validateFilePath has accepted the path.     *)
(***************************************************************************)
NextRace ==
  \/ NextGuard
  \/ /\ rf.pc \in {"readFile", "size"}
     /\ FileRemoved(realpath(fs, rf.fullPath))
  \/ /\ rf.pc \in {"readFile", "size"}
     /\ FileBecomesUnreadable(realpath(fs, rf.fullPath))

SpecRace == InitGuard /\ [][NextRace]_vars

(***************************************************************************)
(* The same search twice on a tree whose files are all readable at first;  *)
(* between the two invocations one file becomes unreadable.                *)
(***************************************************************************)
InitUnreadable ==
  /\ fs \in {Tree(k) : k \in {c \in Choices : ~c.extra /\ c.aOk /\ c.exe /\ ~c.big
                                               /\ c.srcOk /\ c.uiOk /\ c.uOk /\ ~c.rev}}
  /\ fsOps = <<>>
  /\ rf = Idle
  /\ sc = SearchIdle
  /\ ua = UsageIdle
  /\ ex = ExtractIdle
  /\ bg = NoneWaiting
  /\ tl = ToolIdle

AllReadable(F) == \A p \in DOMAIN F : F[p].kind = "file" => F[p].ok

NextUnreadable ==
  \/ NextRepeat
  \/ /\ sc.pc = "done" /\ ~sc.isError /\ ~sc.prev.made
     /\ AllReadable(fs)
     /\ \E p \in DOMAIN fs : FileBecomesUnreadable(p)

SpecUnreadable == InitUnreadable /\ [][NextUnreadable]_vars

(***************************************************************************)
(* Claims about the path guard and read_file                               *)
(***************************************************************************)
\* p is the project directory or a path below it, segment by segment
InsideScanRoot(p) ==
  p = ANGULAR_PROJECT_PATH \/ startsWith(p, ANGULAR_PROJECT_PATH \o "/")

GuardDecided == rf.guard # "pending"

\* C2: validateFilePath returns the resolved path if and only if the resolved
\* path is inside ScanRoot, its extension is allowed and the target exists and
\* is a regular file, and a rejection carries the error kind of a condition
\* that is violated.
C2_AcceptsIffAllThree ==
  GuardDecided =>
    /\ rf.guard = "accepted" <=>
         (/\ InsideScanRoot(rf.fullPath)
          /\ arrayIncludes(ALLOWED_EXTENSIONS, extname(rf.fullPath))
          /\ statIsFile(fs, rf.fullPath))
    /\ rf.guard = "OutOfScope" => ~InsideScanRoot(rf.fullPath)
    /\ rf.guard = "DisallowedType" =>
         ~arrayIncludes(ALLOWED_EXTENSIONS, extname(rf.fullPath))
    /\ rf.guard = "NotAccessible" => ~statIsFile(fs, rf.fullPath)

\* C3: when the path given to read_file resolves outside ScanRoot, it is
\* rejected with OutOfScope and no filesystem call is made for it.
C3_OutsideRejectedUntouched ==
  (rf.pc # "idle" /\ ~InsideScanRoot(rf.fullPath)) =>
    (rf.guard = "OutOfScope" /\ fsOps = <<>>)

\* C4: a path inside ScanRoot whose extension is not allowed is rejected with
\* DisallowedType, whether or not the file exists, before any filesystem call.
C4_DisallowedTypeBeforeExistence ==
  (/\ rf.pc # "idle"
   /\ InsideScanRoot(rf.fullPath)
   /\ ~arrayIncludes(ALLOWED_EXTENSIONS, extname(rf.fullPath))) =>
    (rf.pc = "done" /\ rf.guard = "DisallowedType" /\ fsOps = <<>>)

\* C4 witness: an existing, readable .exe file inside ScanRoot was rejected
C4_Witness ==
  /\ rf.pc = "done"
  /\ rf.filePath = "n.exe"
  /\ readFileOk(fs, rf.fullPath)
  /\ rf.guard = "DisallowedType"

\* C5: read_file never returns the content of a file stored outside ScanRoot
\* ('..' traversal, absolute input, symbolic link to an outside file).
C5_NoContentFromOutside ==
  (rf.pc = "done" /\ ~rf.response.isError) =>
    InsideScanRoot(realpath(fs, rf.fullPath))

(***************************************************************************)
(* Claims about performSearch and countSearchableFiles                     *)
(***************************************************************************)
\* C1: performSearch returns an array of at most 50 hits, whatever the root,
\* the query, the extension list and the tree.
C1_AtMostFiftyHits == Len(sc.returned) <= 50

\* C1 witness: a search that collected more than 50 hits has returned
C1_Witness ==
  /\ sc.pc = "done"
  /\ Len(sc.results) > 50
  /\ Len(sc.returned) = 50

\* the absolute path of the file a hit names
HitPath(hit) == resolve(ANGULAR_PROJECT_PATH, hit.file)

HitFiles(hits) == {HitPath(hits[i]) : i \in 1..Len(hits)}

\* C9: on one unchanged tree, countSearchableFiles(root, types) is at least the
\* number of distinct files in performSearch(root, query, types), and every
\* file that yields a hit is a counted file.
C9_CountCoversHitFiles ==
  sc.pc = "done" /\ ~sc.isError =>
    /\ sc.totalFiles >= Cardinality(HitFiles(sc.returned))
    /\ HitFiles(sc.returned) \subseteq {sc.counted[i] : i \in 1..Len(sc.counted)}

\* C9 witness: hits in two files or more, and more counted files than that
C9_Witness ==
  /\ sc.pc = "done"
  /\ Cardinality(HitFiles(sc.returned)) >= 2
  /\ sc.totalFiles > Cardinality(HitFiles(sc.returned))

\* the names the walkers do not descend into
ExcludedName(name) == startsWith(name, ".") \/ name = "node_modules" \/ name = "dist"

\* path lies under a subdirectory of root, at any depth, with an excluded name
UnderExcluded(root, path) ==
  LET segs == segments(relative(root, path))
  IN  \E i \in 1..(Len(segs) - 1) : ExcludedName(segs[i])

\* C10: no hit of performSearch and no file counted by countSearchableFiles
\* lies under a subdirectory, at any depth below the root, named node_modules
\* or dist or starting with '.'.
C10_ExcludedSubtreesSkipped ==
  /\ \A p \in HitFiles(sc.results) : ~UnderExcluded(sc.searchDir, p)
  /\ \A p \in HitFiles(sc.returned) : ~UnderExcluded(sc.searchDir, p)
  /\ \A i \in 1..Len(sc.counted) : ~UnderExcluded(sc.searchDir, sc.counted[i])

\* C10 witness: a search of the whole project for "ab" in .ts files is done;
\* node_modules/m.ts and src/node_modules/v.ts match and are of that type
C10_Witness ==
  /\ sc.pc = "done"
  /\ sc.searchDir = ANGULAR_PROJECT_PATH
  /\ sc.query = "ab"
  /\ arrayIncludes(sc.allowedTypes, ".ts")
  /\ fileHits("/w/nb/node_modules/m.ts", readFileText(fs, "/w/nb/node_modules/m.ts"),
              sc.query) # <<>>
  /\ fileHits("/w/nb/src/node_modules/v.ts",
              readFileText(fs, "/w/nb/src/node_modules/v.ts"), sc.query) # <<>>
  /\ Len(sc.returned) > 0
  /\ sc.totalFiles > 0

(***************************************************************************)
(* Claims about analyzeComponentUsage                                      *)
(***************************************************************************)
\* C6: in every state during and after analyzeComponentUsage, after each file
\* and each line of the usage scan, every component has totalUsages equal to
\* the length of usedIn.
C6_TotalUsagesIsLength ==
  /\ \A i \in 1..Len(ua.componentUsages) :
       ua.componentUsages[i].totalUsages = Len(ua.componentUsages[i].usedIn)
  /\ \A i \in 1..Len(ua.returned) :
       ua.returned[i].totalUsages = Len(ua.returned[i].usedIn)

\* C6 witness: in the middle of a template file, a component has two usages
\* or more, one of them from a template
C6_Witness ==
  /\ ua.pc = "scanHtml"
  /\ ua.n > 1
  /\ \E i \in 1..Len(ua.componentUsages) :
       /\ ua.componentUsages[i].totalUsages >= 2
       /\ \E j \in 1..Len(ua.componentUsages[i].usedIn) :
            ua.componentUsages[i].usedIn[j].type = "template"

Elements(list) == {list[i] : i \in 1..Len(list)}

MatchesTarget(usage, target) ==
  \/ includes(toLowerCase(usage.component), toLowerCase(target))
  \/ includes(toLowerCase(usage.selector), toLowerCase(target))

\* two invocations on the tree, one after the other, that differ in the filter only
FilteredThenUnfiltered ==
  /\ ua.pc = "done" /\ ua.prev.made
  /\ ua.prev.target # "" /\ ua.target = ""
  /\ ua.prev.includeContext = ua.includeContext

UnfilteredThenFiltered ==
  /\ ua.pc = "done" /\ ua.prev.made
  /\ ua.prev.target = "" /\ ua.target # ""
  /\ ua.prev.includeContext = ua.includeContext

\* C7: with a non-empty filter, the returned list is a subset of the list
\* returned without a filter on the same tree, element for element, and every
\* returned element's name or selector contains the filter, case-insensitively.
C7_FilterIsSubset ==
  /\ FilteredThenUnfiltered => Elements(ua.prev.returned) \subseteq Elements(ua.returned)
  /\ UnfilteredThenFiltered => Elements(ua.returned) \subseteq Elements(ua.prev.returned)
  /\ (ua.pc = "done" /\ ua.target # "") =>
       \A u \in Elements(ua.returned) : MatchesTarget(u, ua.target)

\* C7 witness: a filtered call that returned one of two components, with
\* usages, followed by an unfiltered call that returned both
C7_Witness ==
  /\ FilteredThenUnfiltered
  /\ ua.prev.target = "WComp"
  /\ Len(ua.prev.returned) = 1
  /\ ua.prev.returned[1].totalUsages > 0
  /\ Len(ua.returned) = 2

\* C8: with or without a filter, the returned list is ordered by
\* non-increasing totalUsages.
C8_SortedByUsage ==
  ua.pc = "done" =>
    \A i \in 1..(Len(ua.returned) - 1) :
      ua.returned[i].totalUsages >= ua.returned[i + 1].totalUsages

\* the line contains '<selector' followed at once by white space or '>'
OpensTag(line, selector) ==
  \E c \in {" ", "\t", "\r", ">"} : includes(line, "<" \o selector \o c)

\* the number of template locations a component has for a line of a file
TemplateCount(usage, file, n) ==
  Cardinality({j \in 1..Len(usage.usedIn) :
                 /\ usage.usedIn[j].type = "template"
                 /\ usage.usedIn[j].file = file
                 /\ usage.usedIn[j].line = n})

C15_WitnessTwice ==
  /\ ua.pc = "done"
  /\ \E i \in 1..Len(ua.returned) :
       /\ ua.returned[i].selector = "app-w"
       /\ split(PageText, "\n")[4] = "</app-b><app-w ><app-w>"
       /\ TemplateCount(ua.returned[i], "src/p.html", 4) = 1

(***************************************************************************)
(* Claims about directory read failures                                    *)
(***************************************************************************)
\* the directory path made of root and the first i segments of segs
Below(root, segs, i) == join(root, joinWith(SubSeq(segs, 1, i), "/"))

\* the walkers reach the entry p of the tree F from root: p is below root and
\* root and every directory between root and p is a readable directory that
\* is not excluded
Reachable(F, root, p) ==
  /\ p \in DOMAIN F
  /\ startsWith(p, root \o "/")
  /\ root \in DOMAIN F /\ F[root].kind = "dir" /\ F[root].ok
  /\ LET segs == segments(relative(root, p))
     IN  \A i \in 1..(Len(segs) - 1) :
           /\ ~ExcludedName(segs[i])
           /\ Below(root, segs, i) \in DOMAIN F
           /\ F[Below(root, segs, i)].kind = "dir"
           /\ F[Below(root, segs, i)].ok

\* the readdir calls of the log that failed on a directory below the start
FailedSubdirReads ==
  {i \in 1..Len(fsOps) :
     /\ fsOps[i].op = "readdir"
     /\ fsOps[i].path # sc.searchDir
     /\ ~readdirOk(fs, fsOps[i].path)}

\* the search has returned and the next request has not been taken up
SearchReturned == sc.pc = "done" /\ ua.pc = "idle"

\* C11: a failed read of a subdirectory abandons that subtree only: the
\* search still returns the hits of every readable file it can reach through
\* readable directories, the count still covers every such file, the usage
\* analysis still registers every reachable component and every template
\* line that uses one, and the invocation does not end in an error.
C11_OnlySubtreeAbandoned ==
  /\ (sc.pc # "idle" /\ searchCodebase_inProject(sc.searchDir)) => ~sc.isError
  /\ (SearchReturned /\ ~sc.isError) =>
       \A p \in DOMAIN fs :
         (/\ fs[p].kind = "file"
          /\ arrayIncludes(sc.allowedTypes, extname(p))
          /\ Reachable(fs, sc.searchDir, p)) =>
           /\ p \in Elements(sc.counted)
           /\ fs[p].ok =>
                Elements(fileHits(p, fs[p].text, sc.query)) \subseteq Elements(sc.results)
  /\ (ua.pc = "done") =>
       \A p \in DOMAIN fs :
         (/\ fs[p].kind = "file" /\ fs[p].ok
          /\ extname(p) \in {".ts", ".html"}
          /\ Reachable(fs, srcPath, p)) =>
           /\ (endsWith(p, ".component.ts")
                  /\ extractComponentName(fs[p].text) # NoMatch) =>
                mapHas(ua.returned, extractComponentName(fs[p].text))
           /\ (extname(p) = ".html") =>
                \A u \in Elements(ua.returned) :
                  \A n \in 1..Len(split(fs[p].text, "\n")) :
                    selectorRegexTest(u.selector, split(fs[p].text, "\n")[n]) =>
                      \E l \in Elements(u.usedIn) :
                        /\ l.file = relative(ANGULAR_PROJECT_PATH, p)
                        /\ l.type = "template"
                        /\ l.line = n

\* C11 witness: the search of the whole project failed to read src/ui, read a
\* file after that and returned its hit, and counted files; the usage
\* analysis that followed met the unreadable src/ui first and returned
\* components with usages
C11_Witness ==
  /\ sc.pc = "done" /\ ua.pc = "done"
  /\ sc.searchDir = ANGULAR_PROJECT_PATH
  /\ readdirOk(fs, srcPath)
  /\ ~readdirOk(fs, join(srcPath, "ui"))
  /\ readdir(fs, srcPath)[1].name = "ui"
  /\ \E i \in FailedSubdirReads :
       \E j \in (i + 1)..Len(fsOps) :
         /\ fsOps[j].op = "readFile"
         /\ fsOps[j].path \in HitFiles(sc.returned)
  /\ sc.totalFiles > 0
  /\ \E u \in Elements(ua.returned) : u.totalUsages > 0

\* two invocations, one after the other, with queries that differ in the
\* case of their letters only
SameSearchOtherCase ==
  /\ sc.pc = "done" /\ sc.prev.made
  /\ sc.query # sc.prev.query
  /\ toLowerCase(sc.query) = toLowerCase(sc.prev.query)

\* the number of hits collected for line n of the file p
HitCount(p, n) ==
  Cardinality({j \in 1..Len(sc.results) :
                 HitPath(sc.results[j]) = p /\ sc.results[j].line = n})

\* C16: two searches of one tree with the same directory and file types and
\* queries that differ in letter case only return identical hit arrays; and
\* in a file the search has read, each line that contains the query, in any
\* letter case and however often, has exactly one hit, whose context is the
\* trimmed line, and every other line has none.
C16_CaseInsensitiveOneHitPerLine ==
  /\ SameSearchOtherCase => sc.returned = sc.prev.returned
  /\ (sc.pc = "done") =>
       \A p \in {fsOps[i].path : i \in {k \in 1..Len(fsOps) : fsOps[k].op = "readFile"}} :
         readFileOk(fs, p) =>
           LET lines == split(readFileText(fs, p), "\n")
           IN  \A n \in 1..Len(lines) :
                 IF includes(toLowerCase(lines[n]), toLowerCase(sc.query))
                   THEN \E j \in 1..Len(sc.results) :
                          /\ HitPath(sc.results[j]) = p
                          /\ sc.results[j].line = n
                          /\ sc.results[j].context = trim(lines[n])
                          /\ HitCount(p, n) = 1
                   ELSE HitCount(p, n) = 0

\* C16 witness: a search for "AB" after a search for "ab" returned the same
\* hits, among them the one hit of line 3 of a.ts, where the query occurs
\* twice ("zAB ab"), and the hit of line 2 with the trimmed context "Ab c"
C16_Witness ==
  /\ SameSearchOtherCase
  /\ sc.prev.query = "ab" /\ sc.query = "AB"
  /\ sc.returned = sc.prev.returned
  /\ split(readFileText(fs, "/w/nb/a.ts"), "\n")[2] = "  Ab c "
  /\ split(readFileText(fs, "/w/nb/a.ts"), "\n")[3] = "zAB ab"
  /\ HitCount("/w/nb/a.ts", 3) = 1
  /\ \E j \in 1..Len(sc.returned) :
       /\ sc.returned[j].file = "a.ts"
       /\ sc.returned[j].line = 2
       /\ sc.returned[j].context = "Ab c"

\* C12: when the start directory of a search does not exist or cannot be
\* read, the invocation ends in an error reported to the caller and not in a
\* normal result.
C12_RootUnavailableIsError ==
  (/\ sc.pc = "done"
   /\ searchCodebase_inProject(sc.searchDir)
   /\ ~readdirOk(fs, sc.searchDir)) => sc.isError

\* C13: a search whose directory argument resolves outside ScanRoot, a
\* sibling directory with ScanRoot as a string prefix of its path included,
\* fails, and no directory is read for it.
C13_OutsideDirectoryRejected ==
  (sc.pc # "idle" /\ ~InsideScanRoot(sc.searchDir)) =>
    (sc.pc = "done" /\ sc.isError /\ fsOps = <<>>)

\* C14: whatever fileTypes the caller passes, the search reads files and
\* returns hits only of files whose extension is in ALLOWED_EXTENSIONS.
C14_OnlyAllowedExtensionsRead ==
  /\ \A i \in 1..Len(fsOps) :
       fsOps[i].op = "readFile" =>
         arrayIncludes(ALLOWED_EXTENSIONS, extname(fsOps[i].path))
  /\ \A p \in HitFiles(sc.results) \cup HitFiles(sc.returned) :
       arrayIncludes(ALLOWED_EXTENSIONS, extname(p))

(***************************************************************************)
(* Claims about the structure extractor                                    *)
(***************************************************************************)
SummaryFields ==
  {"imports", "exports", "dependencies", "interfaces", "methods", "components",
   "services"}

\* the invocation has returned and the first invocation of the session was
\* for the same file
SameFileAgain == ex.pc = "done" /\ ex.first.made /\ ex.first.filePath = ex.filePath

\* C17: extraction is a function of the text alone: an invocation for a file
\* returns, in every field it shares with the first invocation for that file,
\* the same array, and with the same parser the same summary, however many
\* other extractions ran in between and whichever extractors they ran.
C17_ExtractionIsPure ==
  SameFileAgain =>
    /\ \A f \in ex.summary.fields \cap ex.first.summary.fields :
         ex.summary[f] = ex.first.summary[f]
    /\ (extractFileContext_parser(ex.fileType)
          = extractFileContext_parser(ex.first.fileType)) =>
         ex.summary = ex.first.summary

\* C17 witness: the TypeScript text was parsed first and is parsed again as
\* TypeScript after an extraction that left other strings in every array it
\* filled; both summaries are equal and have all seven fields, none empty
C17_Witness ==
  /\ SameFileAgain
  /\ ex.filePath = "/w/nb/.h/h.ts"
  /\ ex.fileType = "component" /\ ex.first.fileType = "typescript"
  /\ ex.summary.fields = SummaryFields
  /\ \A f \in SummaryFields : ex.summary[f] # <<>>
  /\ ex.summary = ex.first.summary
  /\ ex.stale

RecognizedKinds == {"component", "service", "typescript", "template", "interface"}

\* C20: extractFileContext returns, for a kind that is not recognized, the
\* empty summary without a file-system call; for a recognized kind whose file
\* cannot be read, the empty summary and no error; and for a recognized kind
\* whose file is read, the fields of the parser of that kind.
C20_OnlyRecognizedKindsParsed ==
  /\ ~ex.raised
  /\ (ex.pc # "idle" /\ ex.fileType \notin RecognizedKinds) =>
       (ex.pc = "done" /\ ex.summary = EmptySummary /\ ex.ops = <<>>)
  /\ (ex.pc = "done" /\ ex.fileType \in RecognizedKinds) =>
       /\ ex.ops = <<[op |-> "readFile", path |-> ex.filePath]>>
       /\ ~readFileOk(fs, ex.filePath) => ex.summary = EmptySummary
       /\ readFileOk(fs, ex.filePath) =>
            ex.summary.fields =
              IF ex.fileType = "template" THEN {"components"}
              ELSE IF ex.fileType = "interface" THEN {"interfaces", "exports", "imports"}
              ELSE SummaryFields

\* C20 witness: after a parse that filled the arrays, a readable TypeScript
\* file was given with a kind that is not recognized and the summary is empty
C20_Witness ==
  /\ ex.pc = "done"
  /\ ex.fileType = "style"
  /\ ex.filePath = "/w/nb/.h/h.ts" /\ readFileOk(fs, ex.filePath)
  /\ ex.left.imports # <<>>
  /\ ex.summary = EmptySummary

\* a recognized kind whose file cannot be read (an unreadable file, a missing
\* file) returned the empty summary
C20_WitnessUnreadable ==
  /\ ex.pc = "done"
  /\ ex.fileType = "interface"
  /\ ex.filePath = "/w/nb/a.ts" /\ ~readFileOk(fs, ex.filePath)
  /\ ex.left.imports # <<>>
  /\ ex.summary = EmptySummary /\ ~ex.raised

(***************************************************************************)
(* Claims about the file system as the tools leave it                      *)
(***************************************************************************)
\* C18: no step of any of the six tools creates, modifies or deletes a file:
\* the tree after the step is the tree before it, and the boilerplate
\* generator only returns the generated text.
C18_NoToolWrites == [][fs' = fs]_vars

\* C18 witness: generate_component_boilerplate has read its sample component
\* and returned the text for the component, and the tree is a tree of the
\* initial states
C18_Witness ==
  /\ tl.pc = "done"
  /\ tl.tool = "generate_component_boilerplate"
  /\ tl.text = "mkdir -p src/app/shared/components/ui/task-card"
  /\ fsOps = <<Call("readFile",
                    "/w/nb/src/app/shared/components/ui/button/button.component.ts")>>
  /\ fs \in {Tree(k) : k \in Choices}

(***************************************************************************)
(* Claims about invocations under way at once                              *)
(***************************************************************************)
\* a search that has returned and was made before with the same arguments
\* returns what it returned then
SameAsAlone(search) ==
  (/\ search.pc \in {"count", "done"}
   /\ search.prev.made
   /\ search.prev.query = search.query
   /\ search.prev.searchDir = search.searchDir
   /\ search.prev.allowedTypes = search.allowedTypes) =>
    search.returned = search.prev.returned

\* the same for a usage analysis
SameUsagesAsAlone(usage) ==
  (/\ usage.pc = "done"
   /\ usage.prev.made
   /\ usage.prev.target = usage.target
   /\ usage.prev.includeContext = usage.includeContext) =>
    usage.returned = usage.prev.returned

\* C19: invocations share no state: a search or a usage analysis whose steps
\* are interleaved with the steps of another search or usage analysis on the
\* same tree returns exactly what it returned when it ran with no other
\* invocation under way.
C19_NoSharedState ==
  /\ SameAsAlone(sc)
  /\ SameAsAlone(bg.sc)
  /\ SameUsagesAsAlone(ua)
  /\ SameUsagesAsAlone(bg.ua)

\* C19 witness: two searches with different hits were both under way with
\* hits collected when the scheduler switched between them; both have
\* returned, and the one made before returned the hits it returned alone
C19_Witness ==
  /\ sc.pc = "done" /\ sc.prev.made
  /\ sc.returned = sc.prev.returned /\ sc.returned # <<>>
  /\ bg.sc.pc = "done" /\ bg.sc.returned # <<>>
  /\ bg.sc.query # sc.query
  /\ bg.mixed

\* two usage analyses were interleaved in the same way
C19_WitnessUsage ==
  /\ ua.pc = "done" /\ ua.prev.made
  /\ ua.returned = ua.prev.returned /\ ua.returned # <<>>
  /\ bg.ua.pc = "done" /\ bg.ua.target # ua.target
  /\ bg.mixed

\* a search made before returned while a usage analysis was scanning
C19_WitnessBoth ==
  /\ sc.pc = "done" /\ sc.prev.made
  /\ sc.returned = sc.prev.returned /\ sc.returned # <<>>
  /\ ua.pc = "scan" /\ ua.componentUsages # <<>>

(***************************************************************************)
(* Claims about the two phases of analyzeComponentUsage                    *)
(***************************************************************************)
ScanPhase == {"scan", "scanTs", "scanHtml"}

\* C21: the two phases are strictly ordered: as long as the discovery walk is
\* under way no component has a usage location or a count, and from the first
\* step of the usage-scan walk on the number of registered components stays
\* what it is.
C21_PhasesOrdered ==
  [][/\ ua'.pc = "discover" =>
          \A i \in 1..Len(ua'.componentUsages) :
            /\ ua'.componentUsages[i].usedIn = <<>>
            /\ ua'.componentUsages[i].totalUsages = 0
     /\ (ua.pc \in ScanPhase /\ ua'.pc \in ScanPhase \cup {"done"}) =>
          Len(ua'.componentUsages) = Len(ua.componentUsages)]_vars

\* C21 witness: the usage scan is under way, three components are registered,
\* one of them has usages, and the walk has entered a second directory
C21_Witness ==
  /\ ua.pc = "scan"
  /\ Len(ua.componentUsages) = 3
  /\ Len(ua.visited) > 1
  /\ \E i \in 1..Len(ua.componentUsages) : ua.componentUsages[i].totalUsages > 0

\* what discovery registers of a component
Declared(usage) ==
  [component |-> usage.component, selector |-> usage.selector,
   importPath |-> usage.importPath, category |-> usage.category]

IsPrefix(a, b) == Len(a) <= Len(b) /\ SubSeq(b, 1, Len(a)) = a

\* C22: a step of the usage-scan phase leaves the components of the map, in
\* their order, with their name, selector, source path and category, and only
\* appends to usedIn and increments totalUsages.
C22_ScanKeepsComponents ==
  [][(ua.pc \in ScanPhase /\ ua'.pc \in ScanPhase \cup {"done"}) =>
       /\ Len(ua'.componentUsages) = Len(ua.componentUsages)
       /\ \A i \in 1..Len(ua.componentUsages) :
            /\ Declared(ua'.componentUsages[i]) = Declared(ua.componentUsages[i])
            /\ IsPrefix(ua.componentUsages[i].usedIn, ua'.componentUsages[i].usedIn)
            /\ ua'.componentUsages[i].totalUsages >= ua.componentUsages[i].totalUsages]_vars

\* C22 witness: the scan has passed the imports array of b.component.ts, so
\* WComponent has a usage of that kind, and is still what discovery registered
C22_Witness ==
  /\ ua.pc \in ScanPhase
  /\ \E i \in 1..Len(ua.componentUsages) :
       /\ ua.componentUsages[i].component = "WComponent"
       /\ ua.componentUsages[i].selector \in {"app-w", "app-x"}
       /\ \E j \in 1..Len(ua.componentUsages[i].usedIn) :
            ua.componentUsages[i].usedIn[j].usage = "Component Import: WComponent"

\* the text has a selector field
HasSelectorField(content) ==
  \E i \in 1..Len(content) : selectorAt(content, i) # NoMatch

\* C24: every component of the map was registered from a file whose text has
\* both the exported class with the Component suffix and the selector field.
C24_BothPatternsNeeded ==
  \A i \in 1..Len(ua.componentUsages) :
    LET content == readFileText(fs, join(ANGULAR_PROJECT_PATH,
                                         ua.componentUsages[i].importPath))
    IN  extractComponentName(content) # NoMatch /\ HasSelectorField(content)

\* the regular files the walk of scanDirectory hands to its file handler, in
\* the order of the walk, from entry i of the directory dir on
RECURSIVE WalkFiles(_, _, _)
WalkFiles(F, dir, i) ==
  IF ~readdirOk(F, dir) \/ i > Len(readdir(F, dir)) THEN <<>>
  ELSE LET item == readdir(F, dir)[i]
       IN  (IF scanDirectory_descends(item) THEN WalkFiles(F, join(dir, item.name), 1)
            ELSE IF isFile(item) THEN <<join(dir, item.name)>>
            ELSE <<>>)
             \o WalkFiles(F, dir, i + 1)

\* the component files of the walk that can be read and declare a name
Declaring(F) ==
  LET files == WalkFiles(F, srcPath, 1)
  IN  {i \in 1..Len(files) :
         /\ endsWith(files[i], ".component.ts")
         /\ readFileOk(F, files[i])
         /\ extractComponentName(readFileText(F, files[i])) # NoMatch}

\* C25: once the discovery walk is over the map has exactly one entry per
\* name that a component file of the walk declares, and the entry's selector,
\* source path and category are those of the last file of the walk that
\* declares the name.
C25_LastDeclarationWins ==
  (ua.pc = "scan" /\ Len(ua.visited) = 1 /\ Top(ua.stack).i = 1) =>
    LET files == WalkFiles(fs, srcPath, 1)
        name(i) == extractComponentName(readFileText(fs, files[i]))
        last == {i \in Declaring(fs) : \A j \in Declaring(fs) : name(j) = name(i) => j <= i}
    IN  /\ Len(ua.componentUsages) = Cardinality(last)
        /\ \A i \in last :
             \E k \in 1..Len(ua.componentUsages) :
               Declared(ua.componentUsages[k]) =
                 [component |-> name(i),
                  selector |-> extractSelector(readFileText(fs, files[i])),
                  importPath |-> relative(ANGULAR_PROJECT_PATH, files[i]),
                  category |->
                    determineComponentCategory(relative(ANGULAR_PROJECT_PATH, files[i]))]

\* C25 witness: two files declare WComponent; the walk visited the one in
\* layout last and the entry has its selector, path and category
C25_Witness ==
  /\ ua.pc = "scan" /\ Len(ua.visited) = 1 /\ Top(ua.stack).i = 1
  /\ Len(ua.componentUsages) = 3
  /\ \E k \in 1..Len(ua.componentUsages) :
       Declared(ua.componentUsages[k]) =
         [component |-> "WComponent", selector |-> "app-x",
          importPath |-> "src/layout/x.component.ts", category |-> "layout"]

(***************************************************************************)
(* Claims about the result of performSearch                                *)
(***************************************************************************)
\* every hit of the traversal that starts at entry i of dir: depth first, in
\* the order of the directory entries, each file's lines in ascending order
RECURSIVE AllHits(_, _, _, _, _)
AllHits(F, dir, i, query, allowedTypes) ==
  IF ~readdirOk(F, dir) \/ i > Len(readdir(F, dir)) THEN <<>>
  ELSE LET item == readdir(F, dir)[i]
           fullPath == join(dir, item.name)
       IN  (IF searchFiles_descends(item) THEN AllHits(F, fullPath, 1, query, allowedTypes)
            ELSE IF searchFiles_reads(item, allowedTypes) /\ readFileOk(F, fullPath)
              THEN fileHits(fullPath, readFileText(F, fullPath), query)
            ELSE <<>>)
             \o AllHits(F, dir, i + 1, query, allowedTypes)

\* C23: the array performSearch returns is the first min(50, N) of the N hits
\* of the whole traversal, in the order of the traversal.
C23_FirstHitsInOrder ==
  (sc.pc = "done" /\ ~sc.isError) =>
    \E all \in {AllHits(fs, sc.searchDir, 1, sc.query, sc.allowedTypes)} :
      sc.returned = SubSeq(all, 1, IF Len(all) < 50 THEN Len(all) ELSE 50)

\* C23 witness: a search with more than 50 hits in more than one file has
\* returned; the first hit returned is not of the file of the last
C23_Witness ==
  /\ sc.pc = "done" /\ ~sc.isError
  /\ Len(sc.results) > 50
  /\ Len(sc.returned) = 50
  /\ sc.returned[1].file # sc.returned[50].file

\* C27: no entry whose name starts with '.' is searched by performSearch or
\* counted by countSearchableFiles.
C27_HiddenEntriesSkipped ==
  /\ \A i \in 1..Len(fsOps) : ~startsWith(basename(fsOps[i].path), ".")
  /\ \A i \in 1..Len(sc.counted) : ~startsWith(basename(sc.counted[i]), ".")

\* C30: the exclusion by name is for the entries met in a directory: a search
\* whose start directory is node_modules or dist reads that directory,
\* returns the hits of the files directly inside it and counts these files.
C30_StartDirectoryAlwaysRead ==
  (/\ sc.pc = "done" /\ ~sc.isError
   /\ sc.searchDir \in {join(ANGULAR_PROJECT_PATH, "node_modules"),
                        join(ANGULAR_PROJECT_PATH, "dist")}) =>
    /\ \E i \in 1..Len(fsOps) : fsOps[i] = [op |-> "readdir", path |-> sc.searchDir]
    /\ \A i \in 1..Len(readdir(fs, sc.searchDir)) :
         LET item == readdir(fs, sc.searchDir)[i]
             fullPath == join(sc.searchDir, item.name)
         IN  (searchFiles_reads(item, sc.allowedTypes) /\ readFileOk(fs, fullPath)) =>
               /\ \E j \in 1..Len(fsOps) : fsOps[j] = [op |-> "readFile", path |-> fullPath]
               /\ \A h \in Elements(fileHits(fullPath, readFileText(fs, fullPath), sc.query)) :
                    h \in Elements(sc.returned)
    /\ \A i \in 1..Len(readdir(fs, sc.searchDir)) :
         countFiles_counts(readdir(fs, sc.searchDir)[i], sc.allowedTypes) =>
           join(sc.searchDir, readdir(fs, sc.searchDir)[i].name) \in Elements(sc.counted)

\* C30 witness: a search of node_modules has returned a hit of a file in it
C30_Witness ==
  /\ sc.pc = "done" /\ ~sc.isError
  /\ sc.searchDir = join(ANGULAR_PROJECT_PATH, "node_modules")
  /\ Len(sc.returned) > 0
  /\ sc.totalFiles > 0

\* C30 witness for dist
C30_WitnessDist ==
  /\ sc.pc = "done" /\ ~sc.isError
  /\ sc.searchDir = join(ANGULAR_PROJECT_PATH, "dist")
  /\ Len(sc.returned) > 0

(***************************************************************************)
(* Claims about files that cannot be read                                  *)
(***************************************************************************)
\* the files of the tree that cannot be read
Unreadable(F) == {p \in DOMAIN F : F[p].kind = "file" /\ ~F[p].ok}

\* the text of the file at p has no line that matches the query
NoMatchingLine(F, p, query) == fileHits(p, F[p].text, query) = <<>>

\* C26: on a tree that differs from the tree of the previous invocation only
\* in that a file without a line matching the query has become unreadable,
\* the same search returns the same hits and no error.
C26_UnreadableAsNoMatch ==
  (/\ sc.pc = "done" /\ sc.prev.made /\ sc.query = sc.prev.query
   /\ \A p \in Unreadable(fs) : NoMatchingLine(fs, p, sc.query)) =>
    /\ ~sc.isError
    /\ sc.returned = sc.prev.returned

\* C26 witness: the second search tried to read a file that had become
\* unreadable and has no matching line, and returned hits of other files
C26_Witness ==
  /\ sc.pc = "done" /\ sc.prev.made /\ sc.query = sc.prev.query
  /\ Len(sc.returned) > 0
  /\ \E p \in Unreadable(fs) :
       /\ NoMatchingLine(fs, p, sc.query)
       /\ \E i \in 1..Len(fsOps) : fsOps[i] = [op |-> "readFile", path |-> p]

ReadErrors == {"OutOfScope", "DisallowedType", "NotAccessible", "ReadFailed"}

\* C29: every invocation of read_file ends with a response; when the path is
\* rejected, or readFile or stat fails, whether the file was removed or made
\* unreadable after validateFilePath accepted it or not, the response is the
\* error message and has none of the file's text.
C29_AlwaysAResponse ==
  [][/\ rf'.pc = "done" =>
          /\ rf'.response.kind \in ReadErrors \cup {"file"}
          /\ rf'.response.isError = (rf'.response.kind \in ReadErrors)
          /\ rf'.response.isError => rf'.response.content = ""
     /\ (/\ rf.pc = "readFile" /\ rf'.pc # "readFile"
         /\ ~readFileOk(fs, rf.fullPath)) =>
          rf'.pc = "done" /\ rf'.response.isError
     /\ (/\ rf.pc = "size" /\ rf'.pc # "size"
         /\ ~statOk(fs, rf.fullPath)) =>
          rf'.pc = "done" /\ rf'.response.isError
     /\ (rf.pc \in {"access", "stat"} /\ rf'.pc = "done") => rf'.response.isError]_vars

\* C29 witness: the file was removed after readFile had returned its text,
\* so the stat of the handler failed, and the invocation has returned
C29_Witness ==
  /\ rf.pc = "done"
  /\ rf.guard = "accepted"
  /\ rf.content # ""
  /\ rf.response.isError
  /\ realpath(fs, rf.fullPath) = NoPath

\* C29 witness: the file became unreadable after validateFilePath accepted it
C29_WitnessUnreadable ==
  /\ rf.pc = "done"
  /\ rf.guard = "accepted"
  /\ rf.content = ""
  /\ rf.response.isError
  /\ realpath(fs, rf.fullPath) # NoPath
  /\ fsOps[Len(fsOps)].op = "readFile"

(***************************************************************************)
(* Claims about symbolic links and termination                             *)
(***************************************************************************)
\* the paths of the readdir calls i..j of the log
ReaddirPaths(log, i, j) ==
  LET idx == {n \in i..j : log[n].op = "readdir"}
  IN  [n \in idx |-> log[n].path]

\* no two calls of a traversal lead to the same directory, and every call is
\* on a path that is a directory itself, not a symbolic link to one
OncePerDirectory(paths) ==
  /\ \A m, n \in DOMAIN paths :
       (m # n) => /\ paths[m] # paths[n]
                  /\ realpath(fs, paths[m]) = NoPath
                       \/ realpath(fs, paths[m]) # realpath(fs, paths[n])
  /\ \A n \in DOMAIN paths : paths[n] \in DOMAIN fs /\ fs[paths[n]].kind = "dir"

\* the log index at which countSearchableFiles starts: the last readdir of
\* the start directory
CountStart ==
  Max({n \in 1..Len(fsOps) : fsOps[n] = [op |-> "readdir", path |-> sc.searchDir]})

\* the directories of the tree
Directories(F) == {p \in DOMAIN F : F[p].kind = "dir"}

\* C28: performSearch, countSearchableFiles and scanDirectory call readdir at
\* most once per directory and never on a symbolic link, also on a tree with
\* a link that leads back to a directory above it; so a traversal makes no
\* more calls than the tree has directories, its recursion is no deeper than
\* that, and it ends.
C28_LinksNotFollowed ==
  /\ sc.pc = "search" => OncePerDirectory(ReaddirPaths(fsOps, 1, Len(fsOps)))
  /\ sc.pc \in {"count", "done"} /\ ~sc.isError =>
       /\ OncePerDirectory(ReaddirPaths(fsOps, 1, CountStart - 1))
       /\ OncePerDirectory(ReaddirPaths(fsOps, CountStart, Len(fsOps)))
  /\ OncePerDirectory(ua.visited)
  /\ Len(sc.stack) <= Cardinality(Directories(fs))
  /\ Len(ua.stack) <= Cardinality(Directories(fs))
  /\ Len(ua.visited) <= Cardinality(Directories(fs))

\* C28 witness: the search, the count and both walks of the usage analysis
\* have ended on a tree whose directory src/layout, with the link up that
\* leads back to src, was read by each of them
C28_Witness ==
  /\ sc.pc = "done" /\ ua.pc = "done"
  /\ "/w/nb/src/layout/up" \in DOMAIN fs
  /\ fs["/w/nb/src/layout/up"].kind = "link"
  /\ realpath(fs, "/w/nb/src/layout/up") = "/w/nb/src"
  /\ \E n \in 1..CountStart - 1 :
       fsOps[n] = [op |-> "readdir", path |-> "/w/nb/src/layout"]
  /\ \E n \in CountStart..Len(fsOps) :
       fsOps[n] = [op |-> "readdir", path |-> "/w/nb/src/layout"]
  /\ \E n \in 1..Len(ua.visited) : ua.visited[n] = "/w/nb/src/layout"

====
